---- MODULE Spec2Model ----
(***************************************************************************)
(* Endpoint Matcher (APIMatcher) of backend/app/services/api_matcher.py    *)
(* and its older copy backend/services/api_matcher.py.                     *)
(*                                                                         *)
(* Strings are sequences of one-character strings, so that the regular     *)
(* expressions, strip/split calls and difflib.SequenceMatcher of the       *)
(* source are computed character by character.  Float scores are           *)
(* fixed-point integers: the float 1.0 is Scale, 0.3 is 3 * Scale \div 10. *)
(***************************************************************************)
EXTENDS Integers, Sequences, FiniteSets, TLC

Scale == 1000 * 1000

\* x * (num/den) on fixed-point scores, e.g. similarity * 0.9 is Mul(similarity, 9, 10)
Mul(x, num, den) == (x * num) \div den

Min2(a, b) == IF a <= b THEN a ELSE b

Max2(a, b) == IF a >= b THEN a ELSE b

(***************************************************************************)
(* Python str primitives                                                   *)
(***************************************************************************)
UpperCase == <<"A","B","C","D","E","F","G","H","I","J","K","L","M",
               "N","O","P","Q","R","S","T","U","V","W","X","Y","Z">>

LowerCase == <<"a","b","c","d","e","f","g","h","i","j","k","l","m",
               "n","o","p","q","r","s","t","u","v","w","x","y","z">>

Digits == {"0","1","2","3","4","5","6","7","8","9"}

WhiteSpace == {" ", "\t", "\n"}

Letters == {UpperCase[k] : k \in 1..26} \cup {LowerCase[k] : k \in 1..26}

\* \w of the re module
WordChars == Letters \cup Digits \cup {"_"}

lower_char(c) ==
    IF \E k \in 1..26 : UpperCase[k] = c
    THEN LowerCase[CHOOSE k \in 1..26 : UpperCase[k] = c]
    ELSE c

\* str.lower()
lower(s) == [k \in 1..Len(s) |-> lower_char(s[k])]

RECURSIVE lstrip(_, _)
\* str.lstrip(chars)
lstrip(s, chars) ==
    IF s # <<>> /\ Head(s) \in chars THEN lstrip(Tail(s), chars) ELSE s

RECURSIVE rstrip(_, _)
\* str.rstrip(chars)
rstrip(s, chars) ==
    IF s # <<>> /\ s[Len(s)] \in chars
    THEN rstrip(SubSeq(s, 1, Len(s) - 1), chars)
    ELSE s

\* str.strip(chars); strip(s, WhiteSpace) is str.strip()
strip(s, chars) == rstrip(lstrip(s, chars), chars)

startswith(s, prefix) ==
    Len(s) >= Len(prefix) /\ SubSeq(s, 1, Len(prefix)) = prefix

endswith(s, suffix) ==
    Len(s) >= Len(suffix) /\ SubSeq(s, Len(s) - Len(suffix) + 1, Len(s)) = suffix

\* the Python slice s[a-1:b]: indices beyond the end are clipped
slice(s, a, b) == SubSeq(s, a, Min2(b, Len(s)))

\* the Python expression  sub in s
contains(sub, s) ==
    \E k \in 0..(Len(s) - Len(sub)) : SubSeq(s, k + 1, k + Len(sub)) = sub

RECURSIVE split(_, _)
\* str.split(sep) for a one-character sep: empty pieces are kept
split(s, sep) ==
    IF \A k \in 1..Len(s) : s[k] # sep
    THEN <<s>>
    ELSE LET k == CHOOSE k \in 1..Len(s) :
                      s[k] = sep /\ \A m \in 1..(k - 1) : s[m] # sep
         IN  <<SubSeq(s, 1, k - 1)>> \o split(SubSeq(s, k + 1, Len(s)), sep)

RECURSIVE split_whitespace(_)
\* str.split() without argument: runs of whitespace separate, no empty pieces
split_whitespace(s) ==
    LET t == lstrip(s, WhiteSpace)
    IN  IF t = <<>> THEN <<>>
        ELSE IF \A k \in 1..Len(t) : t[k] \notin WhiteSpace
        THEN <<t>>
        ELSE LET k == CHOOSE k \in 1..Len(t) :
                          t[k] \in WhiteSpace /\ \A m \in 1..(k - 1) : t[m] \notin WhiteSpace
             IN  <<SubSeq(t, 1, k - 1)>> \o split_whitespace(SubSeq(t, k + 1, Len(t)))

\* set(list)
ToSet(seq) == {seq[k] : k \in 1..Len(seq)}

(***************************************************************************)
(* difflib.SequenceMatcher(None, a, b).ratio()                             *)
(***************************************************************************)
RECURSIVE common_prefix_len(_, _, _, _)
common_prefix_len(a, b, i, j) ==
    IF i <= Len(a) /\ j <= Len(b) /\ a[i] = b[j]
    THEN 1 + common_prefix_len(a, b, i + 1, j + 1)
    ELSE 0

\* the longest matching block <<i, j, size>>: of all maximal blocks the one
\* that starts earliest in a, and of those the one that starts earliest in b
find_longest_match(a, b) ==
    LET ext  == [i \in 1..Len(a), j \in 1..Len(b) |-> common_prefix_len(a, b, i, j)]
        pos  == (1..Len(a)) \X (1..Len(b))
        size == CHOOSE n \in 0..Min2(Len(a), Len(b)) :
                    /\ (n = 0 \/ \E q \in pos : ext[q] = n)
                    /\ \A q \in pos : ext[q] <= n
        besti == CHOOSE i \in 1..Len(a) :
                    /\ \E j \in 1..Len(b) : ext[i, j] = size
                    /\ \A i2 \in 1..(i - 1) : \A j \in 1..Len(b) : ext[i2, j] # size
        bestj == CHOOSE j \in 1..Len(b) :
                    /\ ext[besti, j] = size
                    /\ \A j2 \in 1..(j - 1) : ext[besti, j2] # size
    IN  IF size = 0 THEN <<1, 1, 0>> ELSE <<besti, bestj, size>>

RECURSIVE matching_chars(_, _)
\* sum of the sizes of get_matching_blocks(): the longest block, then the
\* same to its left and to its right
matching_chars(a, b) ==
    IF a = <<>> \/ b = <<>> THEN 0
    ELSE LET m == find_longest_match(a, b)
         IN  IF m[3] = 0 THEN 0
             ELSE m[3]
                  + matching_chars(SubSeq(a, 1, m[1] - 1), SubSeq(b, 1, m[2] - 1))
                  + matching_chars(SubSeq(a, m[1] + m[3], Len(a)),
                                   SubSeq(b, m[2] + m[3], Len(b)))

\* ratio(): 2.0 * matches / length, 1.0 when both strings are empty
ratio(a, b) ==
    IF Len(a) + Len(b) = 0 THEN Scale
    ELSE (2 * matching_chars(a, b) * Scale) \div (Len(a) + Len(b))

(***************************************************************************)
(* String literals of the matcher                                          *)
(***************************************************************************)
s_get == <<"g","e","t">>

s_post == <<"p","o","s","t">>

s_put == <<"p","u","t">>

s_delete == <<"d","e","l","e","t","e">>

s_patch == <<"p","a","t","c","h">>

s_head == <<"h","e","a","d">>

s_options == <<"o","p","t","i","o","n","s">>

s_api == <<"a","p","i">>

s_slash == <<"/">>

s_underscore == <<"_">>

\* the alternation of  ^(get|post|put|delete|patch|head|options)\s+
MethodsWithHeadOptions == {s_get, s_post, s_put, s_delete, s_patch, s_head, s_options}

\* the alternation of  ^(get|post|put|delete|patch)\s+
MethodsPlain == {s_get, s_post, s_put, s_delete, s_patch}

\* (_list|_items|_data|_info|_details)$
SuffixesClean == { <<"_","l","i","s","t">>, <<"_","i","t","e","m","s">>,
                   <<"_","d","a","t","a">>, <<"_","i","n","f","o">>,
                   <<"_","d","e","t","a","i","l","s">> }

\* (_list|_items|_data|_info|_details|_get|_fetch)$
SuffixesNormalize == SuffixesClean \cup { <<"_","g","e","t">>, <<"_","f","e","t","c","h">> }

\* the character class [\s\-_/]
Separators == WhiteSpace \cup {"-", "_", "/"}

\* generic_words of the fuzzy and phrase scorers
generic_words == { s_get, s_post, s_put, s_delete, s_patch, s_api,
                   <<"v","1">>, <<"v","2">>, <<>>, s_underscore, s_slash }

(***************************************************************************)
(* Regular-expression substitutions                                        *)
(***************************************************************************)
\* re.sub(r'^(m1|m2|...)\s+', '', endpoint [, flags=re.IGNORECASE])
re_sub_method_prefix(endpoint, methods, ignorecase) ==
    LET subject == IF ignorecase THEN lower(endpoint) ELSE endpoint
        hit == {m \in methods : /\ startswith(subject, m)
                                /\ Len(endpoint) > Len(m)
                                /\ endpoint[Len(m) + 1] \in WhiteSpace}
    IN  IF hit = {} THEN endpoint
        ELSE LET m == CHOOSE m \in hit : TRUE
             IN  lstrip(SubSeq(endpoint, Len(m) + 1, Len(endpoint)), WhiteSpace)

RECURSIVE digit_run(_, _)
\* length of the match of \d* at position k
digit_run(s, k) ==
    IF k <= Len(s) /\ s[k] \in Digits THEN 1 + digit_run(s, k + 1) ELSE 0

\* length of the match of  v\d+/  at position k (IGNORECASE), 0 when none
version_segment_len(s, k) ==
    LET d == digit_run(s, k + 1)
    IN  IF /\ k <= Len(s)
           /\ lower_char(s[k]) = "v"
           /\ d > 0
           /\ k + 1 + d <= Len(s)
           /\ s[k + 1 + d] = "/"
        THEN d + 2 ELSE 0

\* re.sub(r'^(api/|/api/|v\d+/|/v\d+/)', '', endpoint, flags=re.IGNORECASE)
re_sub_api_version_prefix(endpoint) ==
    LET n == IF startswith(lower(endpoint), s_api \o s_slash) THEN 4
             ELSE IF startswith(lower(endpoint), s_slash \o s_api \o s_slash) THEN 5
             ELSE IF version_segment_len(endpoint, 1) > 0
                  THEN version_segment_len(endpoint, 1)
             ELSE IF startswith(endpoint, s_slash) /\ version_segment_len(endpoint, 2) > 0
                  THEN 1 + version_segment_len(endpoint, 2)
             ELSE 0
    IN  SubSeq(endpoint, n + 1, Len(endpoint))

\* re.sub(r'^(api/|/api/)', '', endpoint)
re_sub_api_prefix(endpoint) ==
    LET n == IF startswith(endpoint, s_api \o s_slash) THEN 4
             ELSE IF startswith(endpoint, s_slash \o s_api \o s_slash) THEN 5
             ELSE 0
    IN  SubSeq(endpoint, n + 1, Len(endpoint))

RECURSIVE re_sub_runs(_, _, _)
\* re.sub(r'[class]+', repl, s): every run of characters of the class becomes repl
re_sub_runs(s, class, repl) ==
    IF s = <<>> THEN <<>>
    ELSE IF Head(s) \in class
         THEN repl \o re_sub_runs(lstrip(s, class), class, repl)
         ELSE <<Head(s)>> \o re_sub_runs(Tail(s), class, repl)

\* re.sub(r'(x1|x2|...)$', '', s): the leftmost match is the longest suffix
re_sub_suffix(s, suffixes) ==
    LET hit == {x \in suffixes : endswith(s, x)}
    IN  IF hit = {} THEN s
        ELSE LET x == CHOOSE x \in hit : \A y \in hit : Len(y) <= Len(x)
             IN  SubSeq(s, 1, Len(s) - Len(x))

\* re.sub(r'[^\w\s/_-]', '', s)
re_sub_special_chars(s) ==
    SelectSeq(s, LAMBDA c : c \in WordChars \cup WhiteSpace \cup {"/", "_", "-"})

(***************************************************************************)
(* Normalisation (app copy)                                                *)
(***************************************************************************)
_normalize_endpoint_for_exact_match(endpoint) ==
    LET e1 == re_sub_method_prefix(endpoint, MethodsWithHeadOptions, TRUE)
        e2 == strip(strip(e1, {"/"}), WhiteSpace)
        e3 == re_sub_api_version_prefix(e2)
        e4 == re_sub_runs(e3, Separators, s_underscore)
        e5 == re_sub_suffix(e4, SuffixesNormalize)
        e6 == rstrip(e5, {"_"})
    IN  lower(e6)

_clean_endpoint_for_matching(endpoint) ==
    LET e1 == re_sub_method_prefix(endpoint, MethodsPlain, FALSE)
        e2 == re_sub_api_prefix(e1)
        e3 == re_sub_suffix(e2, SuffixesClean)
        e4 == re_sub_special_chars(e3)
    IN  strip(re_sub_runs(e4, WhiteSpace, <<" ">>), WhiteSpace)

\* [w for w in s.split('_') if w and w not in generic_words and len(w) > 2]
meaningful_words(s) ==
    SelectSeq(split(s, "_"), LAMBDA w : w # <<>> /\ w \notin generic_words /\ Len(w) > 2)

(***************************************************************************)
(* Component scores (app copy)                                             *)
(***************************************************************************)
\* generic_patterns of _calculate_exact_match_confidence
generic_patterns_exact == {<<>>, s_underscore, s_slash, s_post, s_get, s_put, s_delete, s_patch}

_calculate_exact_match_confidence(perf_api, source_api) ==
    LET perf_endpoint     == strip(lower(perf_api.endpoint), WhiteSpace)
        source_endpoint   == strip(lower(source_api.endpoint), WhiteSpace)
        perf_normalized   == _normalize_endpoint_for_exact_match(perf_endpoint)
        source_normalized == _normalize_endpoint_for_exact_match(source_endpoint)
        is_generic_source == \/ source_normalized \in generic_patterns_exact
                             \/ Len(strip(source_normalized, {"_", "/"})) = 0
        perf_words == SelectSeq(split(perf_normalized, "_"),
                                LAMBDA w : w # <<>> /\ Len(w) > 2)
    IN  IF is_generic_source /\ perf_words # <<>> THEN 0
        ELSE IF perf_normalized = source_normalized THEN Scale
        ELSE IF \/ contains(perf_normalized, source_normalized)
                \/ contains(source_normalized, perf_normalized)
             THEN IF is_generic_source THEN 0 ELSE Mul(Scale, 95, 100)
        ELSE 0

\* generic_patterns of _calculate_fuzzy_match_confidence
generic_patterns_fuzzy ==
    { s_post \o <<" ","/">>, s_get \o <<" ","/">>, s_put \o <<" ","/">>,
      s_delete \o <<" ","/">>, s_patch \o <<" ","/">>,
      s_slash, s_post, s_get, s_put, s_delete }

RECURSIVE SumOver(_, _)
\* sum of f[x] over the finite set S
SumOver(S, f) ==
    IF S = {} THEN 0
    ELSE LET x == CHOOSE x \in S : TRUE IN f[x] + SumOver(S \ {x}, f)

\* fuzzy_bands with the top band returning similarity as computed, without
\* min(similarity, 1.0)
fuzzy_bands_unclamped(similarity) ==
    IF similarity > Mul(Scale, 8, 10) THEN similarity
    ELSE IF similarity > Mul(Scale, 6, 10) THEN Mul(similarity, 9, 10)
    ELSE IF similarity > Mul(Scale, 4, 10) THEN Mul(similarity, 7, 10)
    ELSE Mul(similarity, 5, 10)

\* the return statement of _calculate_fuzzy_match_confidence
fuzzy_bands(similarity) ==
    IF similarity > Mul(Scale, 8, 10) THEN Min2(similarity, Scale)
    ELSE IF similarity > Mul(Scale, 6, 10) THEN Mul(similarity, 9, 10)
    ELSE IF similarity > Mul(Scale, 4, 10) THEN Mul(similarity, 7, 10)
    ELSE Mul(similarity, 5, 10)

\* is_generic_source of _calculate_fuzzy_match_confidence
is_generic_source_fuzzy(source_endpoint) ==
    \/ source_endpoint \in generic_patterns_fuzzy
    \/ /\ Len(strip(strip(source_endpoint, {"/"}), WhiteSpace)) <= 2
       /\ contains(s_slash, source_endpoint)

\* if common_words: max(similarity, word_overlap)  else: similarity * 0.3
fuzzy_common_words_boost(similarity, common_words, larger) ==
    IF common_words # {}
    THEN Max2(similarity, (Cardinality(common_words) * Scale) \div larger)
    ELSE Mul(similarity, 3, 10)

\* the sum of the word similarities above 0.7 over all pairs of words
similar_word_count_of(perf_words_set, source_words_set) ==
    LET pairs == perf_words_set \X source_words_set
    IN  SumOver(pairs, [q \in pairs |->
            LET word_similarity == ratio(q[1], q[2])
            IN  IF word_similarity > Mul(Scale, 7, 10) THEN word_similarity ELSE 0])

\* if similar_word_count > 0: max(similarity, word_similarity_score * 0.9)
fuzzy_similar_words_boost(similarity, similar_word_count, larger) ==
    IF similar_word_count > 0
    THEN Max2(similarity, Mul(similar_word_count \div larger, 9, 10))
    ELSE similarity

\* the adjustments of similarity under  if perf_words_set and source_words_set
fuzzy_similarity(similarity, perf_words_set, source_words_set, larger) ==
    IF perf_words_set # {} /\ source_words_set # {}
    THEN fuzzy_similar_words_boost(
             fuzzy_common_words_boost(similarity, perf_words_set \cap source_words_set,
                                      larger),
             similar_word_count_of(perf_words_set, source_words_set), larger)
    ELSE similarity

\* the early returns and the banded return, from the two word sets
fuzzy_of_words(is_generic_source, similarity, perf_words_set, source_words_set) ==
    IF is_generic_source /\ perf_words_set # {}
    THEN IF perf_words_set \cap source_words_set = {} THEN 0 ELSE Mul(Scale, 2, 10)
    ELSE IF perf_words_set = {} /\ source_words_set # {} THEN Mul(Scale, 1, 10)
    ELSE fuzzy_bands(fuzzy_similarity(similarity, perf_words_set, source_words_set,
             Max2(Cardinality(perf_words_set), Cardinality(source_words_set))))

fuzzy_of_normalized(is_generic_source, perf_normalized, source_normalized) ==
    fuzzy_of_words(is_generic_source, ratio(perf_normalized, source_normalized),
                   ToSet(meaningful_words(perf_normalized)),
                   ToSet(meaningful_words(source_normalized)))

fuzzy_of_endpoints(perf_endpoint, source_endpoint) ==
    fuzzy_of_normalized(is_generic_source_fuzzy(source_endpoint),
                        _normalize_endpoint_for_exact_match(perf_endpoint),
                        _normalize_endpoint_for_exact_match(source_endpoint))

_calculate_fuzzy_match_confidence(perf_api, source_api) ==
    fuzzy_of_endpoints(strip(lower(perf_api.endpoint), WhiteSpace),
                       strip(lower(source_api.endpoint), WhiteSpace))

RECURSIVE substring_boost(_, _, _)
\* the boost loop of _calculate_phrase_similarity: + 0.15, capped at 1.0, for
\* every perf word that contains or is contained in some source word
substring_boost(similarity, perf_words, source_words) ==
    IF perf_words = <<>> THEN similarity
    ELSE LET w   == Head(perf_words)
             hit == \E k \in 1..Len(source_words) :
                        contains(w, source_words[k]) \/ contains(source_words[k], w)
         IN  substring_boost(
                 IF hit THEN Min2(similarity + Mul(Scale, 15, 100), Scale) ELSE similarity,
                 Tail(perf_words), source_words)

\* the score when both endpoints have meaningful words
phrase_of_common_words(perf_set, source_set, common_words) ==
    IF common_words # {}
    THEN IF \/ Cardinality(common_words) = Cardinality(perf_set)
            \/ Cardinality(common_words) = Cardinality(source_set)
         THEN Mul(Scale, 9, 10)
         ELSE (Cardinality(common_words) * Scale)
                  \div Max2(Cardinality(perf_set), Cardinality(source_set))
    ELSE Mul(Scale, 2, 10)

\* the fallback: the SequenceMatcher ratio, boosted for substring words
phrase_boosted(similarity, perf_words_meaningful, source_words_meaningful) ==
    IF perf_words_meaningful # <<>> /\ source_words_meaningful # <<>>
    THEN substring_boost(similarity, perf_words_meaningful, source_words_meaningful)
    ELSE similarity

\* if not is_generic_source and not is_generic_perf and not common_words:
\*     similarity *= 0.3
phrase_fallback(similarity, is_generic_source, is_generic_perf, common_words) ==
    IF ~is_generic_source /\ ~is_generic_perf /\ common_words = {}
    THEN Mul(similarity, 3, 10)
    ELSE similarity

phrase_of_sets(perf_normalized, source_normalized, perf_words_meaningful, source_words_meaningful, perf_set, source_set) ==
    IF perf_normalized = source_normalized THEN Scale
    ELSE IF \/ contains(perf_normalized, source_normalized)
            \/ contains(source_normalized, perf_normalized)
         THEN Mul(Scale, 95, 100)
    ELSE IF source_set = {} /\ perf_set # {} THEN Mul(Scale, 1, 10)
    ELSE IF perf_set = {} /\ source_set # {} THEN Mul(Scale, 1, 10)
    ELSE IF perf_set # {} /\ source_set # {}
         THEN phrase_of_common_words(perf_set, source_set, perf_set \cap source_set)
    ELSE phrase_fallback(
             phrase_boosted(ratio(perf_normalized, source_normalized),
                            perf_words_meaningful, source_words_meaningful),
             source_set = {}, perf_set = {}, perf_set \cap source_set)

phrase_of_words(perf_normalized, source_normalized, perf_words_meaningful, source_words_meaningful) ==
    phrase_of_sets(perf_normalized, source_normalized, perf_words_meaningful,
                   source_words_meaningful, ToSet(perf_words_meaningful),
                   ToSet(source_words_meaningful))

phrase_of_normalized(perf_normalized, source_normalized) ==
    phrase_of_words(perf_normalized, source_normalized,
                    meaningful_words(perf_normalized), meaningful_words(source_normalized))

_calculate_phrase_similarity(perf_endpoint, source_endpoint) ==
    phrase_of_normalized(_normalize_endpoint_for_exact_match(perf_endpoint),
                         lstrip(_normalize_endpoint_for_exact_match(source_endpoint), {"/"}))

_calculate_phrase_match_confidence(perf_api, source_api) ==
    _calculate_phrase_similarity(
        _clean_endpoint_for_matching(strip(lower(perf_api.endpoint), WhiteSpace)),
        _clean_endpoint_for_matching(strip(lower(source_api.endpoint), WhiteSpace)))

(***************************************************************************)
(* _find_best_match (app copy)                                             *)
(***************************************************************************)
\* generic_patterns of _find_best_match
generic_patterns_best ==
    { s_post \o <<" ","/">>, s_get \o <<" ","/">>, s_put \o <<" ","/">>,
      s_delete \o <<" ","/">>, s_patch \o <<" ","/">>, s_slash, s_post, s_get }

\* the weighted combination of the normal branch: 0.60, 0.30, 0.10
weighted_combination(exact_match_score, fuzzy_match_score, phrase_match_score) ==
    Mul(exact_match_score, 60, 100) + Mul(fuzzy_match_score, 30, 100)
        + Mul(phrase_match_score, 10, 100)

\* the body of the loop of _find_best_match up to total_confidence
total_confidence_of(perf_api, source_api, exact_match_score, fuzzy_match_score, phrase_match_score) ==
    LET source_endpoint_clean == strip(lower(source_api.endpoint), WhiteSpace)
        is_generic_source ==
            \/ source_endpoint_clean \in generic_patterns_best
            \/ /\ Len(source_endpoint_clean) <= 5
               /\ strip(strip(source_endpoint_clean, {"/"}), WhiteSpace) = <<>>
        perf_words == SelectSeq(split_whitespace(lower(perf_api.endpoint)),
                          LAMBDA w : Len(w) > 2 /\ w \notin {s_get, s_post, s_put, s_delete})
        source_words == SelectSeq(split_whitespace(lower(source_api.endpoint)),
                          LAMBDA w : Len(w) > 2)
        common_words == ToSet(perf_words) \cap ToSet(source_words)
    IN  IF is_generic_source /\ perf_words # <<>>
        THEN IF common_words = {}
             THEN Min2(Mul(exact_match_score, 10, 100) + Mul(fuzzy_match_score, 5, 100)
                           + Mul(phrase_match_score, 5, 100),
                       Mul(Scale, 2, 10))
             ELSE Min2(Mul(exact_match_score, 30, 100) + Mul(fuzzy_match_score, 20, 100)
                           + Mul(phrase_match_score, 30, 100),
                       Mul(Scale, 5, 10))
        ELSE IF exact_match_score >= Mul(Scale, 9, 10)
             THEN Max2(exact_match_score, Mul(phrase_match_score, 95, 100))
             ELSE weighted_combination(exact_match_score, fuzzy_match_score,
                                       phrase_match_score)

\* the three component scores and the combined confidence of one pair
score_record(perf_api, source_api, exact_match_score, fuzzy_match_score, phrase_match_score) ==
    [ exact  |-> exact_match_score,
      fuzzy  |-> fuzzy_match_score,
      phrase |-> phrase_match_score,
      total  |-> total_confidence_of(perf_api, source_api, exact_match_score,
                                     fuzzy_match_score, phrase_match_score) ]

pair_scores(perf_api, source_api) ==
    score_record(perf_api, source_api,
                 _calculate_exact_match_confidence(perf_api, source_api),
                 _calculate_fuzzy_match_confidence(perf_api, source_api),
                 _calculate_phrase_match_confidence(perf_api, source_api))

(***************************************************************************)
(* Component scores (services copy, backend/services/api_matcher.py)       *)
(***************************************************************************)
s_fetch == <<"f","e","t","c","h">>

s_retrieve == <<"r","e","t","r","i","e","v","e">>

s_list == <<"l","i","s","t">>

s_data == <<"d","a","t","a">>

s_info == <<"i","n","f","o">>

_calculate_exact_match_confidence_services(perf_api, source_api) ==
    LET perf_endpoint   == strip(lower(perf_api.endpoint), WhiteSpace)
        source_endpoint == strip(lower(source_api.endpoint), WhiteSpace)
        perf_clean      == re_sub_method_prefix(perf_endpoint, MethodsWithHeadOptions, FALSE)
        source_clean    == re_sub_method_prefix(source_endpoint, MethodsWithHeadOptions, FALSE)
    IN  IF perf_endpoint = source_endpoint THEN Scale
        ELSE IF perf_clean = source_clean THEN Mul(Scale, 9, 10)
        ELSE 0

_normalize_for_fuzzy_match(endpoint) ==
    LET \* re.sub(r'^/api/?', '', endpoint)
        e1 == IF startswith(endpoint, s_slash \o s_api \o s_slash)
              THEN SubSeq(endpoint, 6, Len(endpoint))
              ELSE IF startswith(endpoint, s_slash \o s_api)
              THEN SubSeq(endpoint, 5, Len(endpoint))
              ELSE endpoint
        \* re.sub(r'^/v\d+/', '', endpoint): no IGNORECASE
        e2 == IF /\ startswith(e1, <<"/", "v">>)
                 /\ version_segment_len(e1, 2) > 0
              THEN SubSeq(e1, 2 + version_segment_len(e1, 2), Len(e1))
              ELSE e1
        e3 == strip(e2, {"/"})
        e4 == re_sub_runs(e3, Separators, s_underscore)
        e5 == re_sub_suffix(e4, {s_underscore \o s_list})
        e6 == re_sub_suffix(e5, {s_underscore \o s_get})
        e7 == re_sub_suffix(e6, {s_underscore \o s_fetch})
    IN  lower(e7)

\* the return statement of _calculate_fuzzy_match_confidence (services copy)
fuzzy_bands_services(similarity) ==
    IF similarity > Mul(Scale, 8, 10) THEN similarity
    ELSE IF similarity > Mul(Scale, 6, 10) THEN Mul(similarity, 8, 10)
    ELSE Mul(similarity, 5, 10)

_calculate_fuzzy_match_confidence_services(perf_api, source_api) ==
    fuzzy_bands_services(ratio(
        _normalize_for_fuzzy_match(re_sub_method_prefix(
            strip(lower(perf_api.endpoint), WhiteSpace), MethodsWithHeadOptions, FALSE)),
        _normalize_for_fuzzy_match(re_sub_method_prefix(
            strip(lower(source_api.endpoint), WhiteSpace), MethodsWithHeadOptions, FALSE))))

_is_partial_match(word1, word2) ==
    IF Len(word1) < 3 \/ Len(word2) < 3 THEN FALSE
    ELSE contains(word1, word2) \/ contains(word2, word1)

_calculate_word_similarity(perf_endpoint, source_endpoint) ==
    LET perf_words   == ToSet(split_whitespace(perf_endpoint))
        source_words == ToSet(split_whitespace(source_endpoint))
        intersection == perf_words \cap source_words
        union        == perf_words \cup source_words
        base_similarity == (Cardinality(intersection) * Scale) \div Cardinality(union)
        partial_matches ==
            Cardinality({w \in perf_words : \E v \in source_words : _is_partial_match(w, v)})
        partial_bonus == partial_matches * Mul(Scale, 1, 10)
    IN  IF perf_words = {} \/ source_words = {} THEN 0
        ELSE Min2(base_similarity + partial_bonus, Scale)

\* length of the run of whitespace that starts at position k
whitespace_run(s, k) == Len(s) - k + 1 - Len(lstrip(SubSeq(s, k, Len(s)), WhiteSpace))

\* positions where  kw\s+(.+)  matches
keyword_rest_matches(s, kw) ==
    {k \in 1..Len(s) :
        /\ slice(s, k, k + Len(kw) - 1) = kw
        /\ LET run == whitespace_run(s, k + Len(kw))
           IN  run >= 1 /\ (k + Len(kw) + run <= Len(s) \/ run >= 2)}

\* re.sub(r'kw\s+(.+)', r'/\1', s): the leftmost match runs to the end of s
re_sub_keyword_rest(s, kw) ==
    LET hits == keyword_rest_matches(s, kw)
        k    == CHOOSE k \in hits : \A m \in hits : k <= m
        run  == whitespace_run(s, k + Len(kw))
        ws   == IF k + Len(kw) + run <= Len(s) THEN run ELSE run - 1
    IN  IF hits = {} THEN s
        ELSE SubSeq(s, 1, k - 1) \o s_slash \o SubSeq(s, k + Len(kw) + ws, Len(s))

\* positions q of the whitespace character where  (.+)\s+kw  can end its \s+
rest_keyword_matches(s, kw) ==
    {q \in 2..Len(s) : s[q] \in WhiteSpace /\ slice(s, q + 1, q + Len(kw)) = kw}

\* re.sub(r'(.+)\s+kw', r'/\1', s): the greedy group reaches the last  \s+kw
re_sub_rest_keyword(s, kw) ==
    LET hits == rest_keyword_matches(s, kw)
        q    == CHOOSE q \in hits : \A m \in hits : q >= m
    IN  IF hits = {} THEN s
        ELSE s_slash \o SubSeq(s, 1, q - 1) \o SubSeq(s, q + Len(kw) + 1, Len(s))

\* positions where  /(.+)  matches
slash_rest_matches(s) == {k \in 1..(Len(s) - 1) : s[k] = "/"}

\* re.sub(r'/(.+)', before \1 after, s)
re_sub_slash_rest(s, before, after) ==
    LET hits == slash_rest_matches(s)
        k    == CHOOSE k \in hits : \A m \in hits : k <= m
    IN  IF hits = {} THEN s
        ELSE SubSeq(s, 1, k - 1) \o before \o SubSeq(s, k + 1, Len(s)) \o after

either_contains(a, b) == contains(a, b) \/ contains(b, a)

_calculate_phrase_similarity_services(perf_endpoint, source_endpoint) ==
    LET forward ==
            \/ /\ keyword_rest_matches(perf_endpoint, s_get) # {}
               /\ either_contains(re_sub_keyword_rest(perf_endpoint, s_get), source_endpoint)
            \/ /\ rest_keyword_matches(perf_endpoint, s_list) # {}
               /\ either_contains(re_sub_rest_keyword(perf_endpoint, s_list), source_endpoint)
            \/ /\ keyword_rest_matches(perf_endpoint, s_fetch) # {}
               /\ either_contains(re_sub_keyword_rest(perf_endpoint, s_fetch), source_endpoint)
            \/ /\ keyword_rest_matches(perf_endpoint, s_retrieve) # {}
               /\ either_contains(re_sub_keyword_rest(perf_endpoint, s_retrieve), source_endpoint)
            \/ /\ rest_keyword_matches(perf_endpoint, s_data) # {}
               /\ either_contains(re_sub_rest_keyword(perf_endpoint, s_data), source_endpoint)
            \/ /\ rest_keyword_matches(perf_endpoint, s_info) # {}
               /\ either_contains(re_sub_rest_keyword(perf_endpoint, s_info), source_endpoint)
        reverse ==
            /\ slash_rest_matches(source_endpoint) # {}
            /\ \/ either_contains(re_sub_slash_rest(source_endpoint, <<>>, <<>>), perf_endpoint)
               \/ either_contains(re_sub_slash_rest(source_endpoint, s_get \o <<" ">>, <<>>),
                                  perf_endpoint)
               \/ either_contains(re_sub_slash_rest(source_endpoint, <<>>, <<" ">> \o s_list),
                                  perf_endpoint)
        similarity == ratio(perf_endpoint, source_endpoint)
        perf_words == split_whitespace(perf_endpoint)
    IN  IF forward THEN Mul(Scale, 9, 10)
        ELSE IF reverse THEN Mul(Scale, 8, 10)
        ELSE IF \E k \in 1..Len(perf_words) : contains(perf_words[k], source_endpoint)
             THEN Min2(similarity + Mul(Scale, 2, 10), Scale)
             ELSE similarity

semantic_patterns_services ==
    {
      [ category |-> <<"g","e","t">>,
        synonyms |-> { <<"f","e","t","c","h">>,
                      <<"r","e","t","r","i","e","v","e">>,
                      <<"l","i","s","t">>,
                      <<"f","i","n","d">>,
                      <<"s","e","a","r","c","h">>,
                      <<"q","u","e","r","y">>,
                      <<"l","o","a","d">>,
                      <<"o","b","t","a","i","n">>,
                      <<"s","h","o","w">>,
                      <<"d","i","s","p","l","a","y">> } ],
      [ category |-> <<"p","o","s","t">>,
        synonyms |-> { <<"c","r","e","a","t","e">>,
                      <<"a","d","d">>,
                      <<"i","n","s","e","r","t">>,
                      <<"s","a","v","e">>,
                      <<"s","t","o","r","e">>,
                      <<"s","u","b","m","i","t">>,
                      <<"s","e","n","d">>,
                      <<"n","e","w">>,
                      <<"m","a","k","e">> } ],
      [ category |-> <<"p","u","t">>,
        synonyms |-> { <<"u","p","d","a","t","e">>,
                      <<"m","o","d","i","f","y">>,
                      <<"e","d","i","t">>,
                      <<"c","h","a","n","g","e">>,
                      <<"a","l","t","e","r">>,
                      <<"r","e","v","i","s","e">>,
                      <<"s","e","t">> } ],
      [ category |-> <<"d","e","l","e","t","e">>,
        synonyms |-> { <<"r","e","m","o","v","e">>,
                      <<"d","r","o","p">>,
                      <<"d","e","s","t","r","o","y">>,
                      <<"c","l","e","a","r">>,
                      <<"e","l","i","m","i","n","a","t","e">> } ],
      [ category |-> <<"i","s","s","u","e","s">>,
        synonyms |-> { <<"t","i","c","k","e","t","s">>,
                      <<"b","u","g","s">>,
                      <<"p","r","o","b","l","e","m","s">>,
                      <<"t","a","s","k","s">>,
                      <<"i","t","e","m","s">> } ],
      [ category |-> <<"u","s","e","r","s">>,
        synonyms |-> { <<"a","c","c","o","u","n","t","s">>,
                      <<"p","r","o","f","i","l","e","s">>,
                      <<"m","e","m","b","e","r","s">>,
                      <<"p","e","o","p","l","e">> } ],
      [ category |-> <<"d","a","t","a">>,
        synonyms |-> { <<"i","n","f","o","r","m","a","t","i","o","n">>,
                      <<"r","e","c","o","r","d","s">>,
                      <<"e","n","t","r","i","e","s">>,
                      <<"c","o","n","t","e","n","t">> } ],
      [ category |-> <<"a","u","t","h">>,
        synonyms |-> { <<"a","u","t","h","e","n","t","i","c","a","t","i","o","n">>,
                      <<"l","o","g","i","n">>,
                      <<"s","i","g","n","i","n">>,
                      <<"s","e","c","u","r","i","t","y">> } ],
      [ category |-> <<"c","o","n","f","i","g">>,
        synonyms |-> { <<"s","e","t","t","i","n","g","s">>,
                      <<"c","o","n","f","i","g","u","r","a","t","i","o","n">>,
                      <<"p","r","e","f","e","r","e","n","c","e","s">>,
                      <<"o","p","t","i","o","n","s">> } ],
      [ category |-> <<"s","t","a","t","u","s">>,
        synonyms |-> { <<"s","t","a","t","e">>,
                      <<"c","o","n","d","i","t","i","o","n">>,
                      <<"h","e","a","l","t","h">>,
                      <<"c","h","e","c","k">> } ],
      [ category |-> <<"r","e","p","o","r","t">>,
        synonyms |-> { <<"s","u","m","m","a","r","y">>,
                      <<"a","n","a","l","y","t","i","c","s">>,
                      <<"m","e","t","r","i","c","s">>,
                      <<"s","t","a","t","i","s","t","i","c","s">> } ],
      [ category |-> <<"f","i","l","e">>,
        synonyms |-> { <<"d","o","c","u","m","e","n","t">>,
                      <<"a","t","t","a","c","h","m","e","n","t">>,
                      <<"u","p","l","o","a","d">>,
                      <<"d","o","w","n","l","o","a","d">> } ],
      [ category |-> <<"s","e","a","r","c","h">>,
        synonyms |-> { <<"f","i","n","d">>,
                      <<"l","o","o","k","u","p">>,
                      <<"q","u","e","r","y">>,
                      <<"f","i","l","t","e","r">> } ],
      [ category |-> <<"d","a","s","h","b","o","a","r","d">>,
        synonyms |-> { <<"h","o","m","e">>,
                      <<"o","v","e","r","v","i","e","w">>,
                      <<"m","a","i","n">>,
                      <<"i","n","d","e","x">> } ],
      [ category |-> <<"p","r","o","f","i","l","e">>,
        synonyms |-> { <<"a","c","c","o","u","n","t">>,
                      <<"u","s","e","r">>,
                      <<"p","e","r","s","o","n","a","l">>,
                      <<"s","e","t","t","i","n","g","s">> } ],
      [ category |-> <<"n","o","t","i","f","i","c","a","t","i","o","n">>,
        synonyms |-> { <<"a","l","e","r","t">>,
                      <<"m","e","s","s","a","g","e">>,
                      <<"a","n","n","o","u","n","c","e","m","e","n","t">>,
                      <<"u","p","d","a","t","e">> } ],
      [ category |-> <<"s","e","s","s","i","o","n">>,
        synonyms |-> { <<"l","o","g","i","n">>,
                      <<"a","u","t","h">>,
                      <<"t","o","k","e","n">>,
                      <<"c","r","e","d","e","n","t","i","a","l">> } ],
      [ category |-> <<"p","e","r","m","i","s","s","i","o","n">>,
        synonyms |-> { <<"a","c","c","e","s","s">>,
                      <<"r","i","g","h","t">>,
                      <<"p","r","i","v","i","l","e","g","e">>,
                      <<"a","u","t","h","o","r","i","z","a","t","i","o","n">> } ],
      [ category |-> <<"c","a","t","e","g","o","r","y">>,
        synonyms |-> { <<"t","y","p","e">>,
                      <<"g","r","o","u","p">>,
                      <<"c","l","a","s","s">>,
                      <<"c","l","a","s","s","i","f","i","c","a","t","i","o","n">> } ],
      [ category |-> <<"t","e","m","p","l","a","t","e">>,
        synonyms |-> { <<"f","o","r","m","a","t">>,
                      <<"p","a","t","t","e","r","n">>,
                      <<"m","o","d","e","l">>,
                      <<"s","t","r","u","c","t","u","r","e">> } ]
    }

_calculate_semantic_similarity_services(perf_endpoint, source_endpoint) ==
    LET perf_words   == split_whitespace(perf_endpoint)
        source_words == ToSet(split_whitespace(source_endpoint))
        total_words  == Len(perf_words)
        \* the credit of one perf word: 1, 0.8 through the synonym table, or 0
        credit(perf_word) ==
            IF perf_word \in source_words THEN Scale
            ELSE IF \/ \E p \in semantic_patterns_services :
                          /\ perf_word \in p.synonyms \/ perf_word = p.category
                          /\ \E synonym \in p.synonyms :
                                 synonym \in source_words \/ p.category \in source_words
                    \/ \E source_word \in source_words : \E p \in semantic_patterns_services :
                          \/ perf_word \in p.synonyms /\ source_word = p.category
                          \/ source_word \in p.synonyms /\ perf_word = p.category
                 THEN Mul(Scale, 8, 10)
                 ELSE 0
        semantic_matches ==
            SumOver(1..total_words, [k \in 1..total_words |-> credit(perf_words[k])])
    IN  IF total_words > 0 THEN semantic_matches \div total_words ELSE 0

\* total_similarity of _calculate_semantic_match_confidence, capped at 1.0
semantic_of_clean(perf_clean, source_clean) ==
    Min2(Mul(_calculate_word_similarity(perf_clean, source_clean), 4, 10)
           + Mul(_calculate_phrase_similarity_services(perf_clean, source_clean), 3, 10)
           + Mul(_calculate_semantic_similarity_services(perf_clean, source_clean), 3, 10),
         Scale)

_calculate_semantic_match_confidence_services(perf_api, source_api) ==
    semantic_of_clean(
        _clean_endpoint_for_matching(strip(lower(perf_api.endpoint), WhiteSpace)),
        _clean_endpoint_for_matching(strip(lower(source_api.endpoint), WhiteSpace)))

_calculate_phrase_match_confidence_services(perf_api, source_api) ==
    _calculate_phrase_similarity_services(
        _clean_endpoint_for_matching(strip(lower(perf_api.endpoint), WhiteSpace)),
        _clean_endpoint_for_matching(strip(lower(source_api.endpoint), WhiteSpace)))

_calculate_framework_match_confidence(perf_api, source_api) ==
    LET perf_endpoint == lower(perf_api.endpoint)
    IN  IF source_api.framework # "" /\ source_api.framework # "Unknown"
        THEN Mul(Scale, 8, 10)
        ELSE IF \E pattern \in { <<"/","a","p","i","/">>, <<"/","v","1","/">>, <<"/","v","2","/">>, <<"/","r","e","s","t","/">> } :
                    contains(pattern, perf_endpoint)
             THEN Mul(Scale, 6, 10)
             ELSE Mul(Scale, 3, 10)

\* the weighted combination of the services copy: 0.1, 0.1, 0.3, 0.1, 0.4
weighted_combination_services(exact_match_score, fuzzy_match_score, semantic_match_score, framework_match_score, phrase_match_score) ==
    Mul(exact_match_score, 1, 10) + Mul(fuzzy_match_score, 1, 10)
        + Mul(semantic_match_score, 3, 10) + Mul(framework_match_score, 1, 10)
        + Mul(phrase_match_score, 4, 10)

\* the component scores and the combined confidence of one pair (services copy)
score_record_services(exact_match_score, fuzzy_match_score, semantic_match_score, framework_match_score, phrase_match_score) ==
    [ exact     |-> exact_match_score,
      fuzzy     |-> fuzzy_match_score,
      semantic  |-> semantic_match_score,
      framework |-> framework_match_score,
      phrase    |-> phrase_match_score,
      total     |-> weighted_combination_services(exact_match_score, fuzzy_match_score,
                        semantic_match_score, framework_match_score, phrase_match_score) ]

pair_scores_services(perf_api, source_api) ==
    score_record_services(_calculate_exact_match_confidence_services(perf_api, source_api),
                          _calculate_fuzzy_match_confidence_services(perf_api, source_api),
                          _calculate_semantic_match_confidence_services(perf_api, source_api),
                          _calculate_framework_match_confidence(perf_api, source_api),
                          _calculate_phrase_match_confidence_services(perf_api, source_api))

(***************************************************************************)
(* Records and the inputs the calls draw from                              *)
(***************************************************************************)
\* APIPerformanceProfile
Profile(endpoint) ==
    [ endpoint                 |-> endpoint,
      avg_response_time_ms     |-> 100,
      error_rate_percent       |-> 0,
      throughput_rps           |-> 100,
      percentile_95_latency_ms |-> 100 ]

\* DiscoveredAPI
Discovered(endpoint, file_path, framework) ==
    [ endpoint |-> endpoint, file_path |-> file_path, framework |-> framework ]

p_get_api_users_id == Profile(<<"G","E","T"," ","/","a","p","i","/","u","s","e","r","s","/","{","i","d","}">>)

p_users_id == Profile(<<"u","s","e","r","s","/","{","i","d","}">>)

p_get_issues_list == Profile(<<"G","e","t"," ","I","s","s","u","e","s"," ","L","i","s","t">>)

p_get_dashboard_summary == Profile(<<"G","E","T"," ","/","d","a","s","h","b","o","a","r","d","/","s","u","m","m","a","r","y">>)

p_slash_get == Profile(<<"/","g","e","t">>)

p_get_head_users == Profile(<<"G","E","T"," ","/","h","e","a","d","/","u","s","e","r","s">>)

p_users_user == Profile(<<"u","s","e","r","s","/","u","s","e","r">>)

p_root == Profile(<<"/">>)

p_ab == Profile(<<"a","b">>)

p_patch_notes == Profile(<<"p","a","t","c","h"," ","n","o","t","e","s">>)

d_get_api_users_id_A == Discovered(<<"G","E","T"," ","/","a","p","i","/","u","s","e","r","s","/","{","i","d","}">>, "fileA", "Flask")

d_get_api_users_id_B == Discovered(<<"G","E","T"," ","/","a","p","i","/","u","s","e","r","s","/","{","i","d","}">>, "fileB", "Flask")

d_post_api_orders == Discovered(<<"P","O","S","T"," ","/","a","p","i","/","o","r","d","e","r","s">>, "fileB", "Flask")

d_get_issues == Discovered(<<"G","E","T"," ","/","i","s","s","u","e","s">>, "fileC", "Unknown")

d_post_root == Discovered(<<"P","O","S","T"," ","/">>, "fileD", "Unknown")

d_slash_get == Discovered(<<"/","g","e","t">>, "fileE", "Unknown")

d_get_head == Discovered(<<"G","E","T"," ","/","h","e","a","d">>, "fileF", "Unknown")

d_user_users == Discovered(<<"u","s","e","r","/","u","s","e","r","s">>, "fileG", "Unknown")

d_root == Discovered(<<"/">>, "fileH", "Unknown")

d_cd == Discovered(<<"c","d">>, "fileI", "Unknown")

d_patch_root == Discovered(<<"P","A","T","C","H"," ","/">>, "fileJ", "Unknown")

\* the profiles and discovered endpoints a call of _find_best_match draws from
PerformanceUniverse ==
    { p_get_api_users_id, p_users_id, p_get_issues_list, p_get_dashboard_summary,
      p_slash_get, p_get_head_users, p_users_user, p_root, p_ab, p_patch_notes }

DiscoveredUniverse ==
    { d_get_api_users_id_A, d_get_api_users_id_B, d_post_api_orders, d_get_issues,
      d_post_root, d_slash_get, d_get_head, d_user_users, d_root, d_cd,
      d_patch_root }

\* the profiles and discovered endpoints a call of match_apis draws from
CallProfiles == { p_get_api_users_id, p_users_id, p_get_issues_list, p_get_dashboard_summary }

CallDiscovered == { d_get_api_users_id_A, d_post_api_orders, d_get_issues, d_post_root }

\* longest performance list and longest discovered list of a call
MaxPerf == 2

MaxSrc == 2

\* the number of calls of match_apis made on the same two lists
MaxCalls == 3

\* the profiles, discovered endpoints and thresholds of the repeated calls
RepeatProfiles == { p_slash_get, p_ab }

RepeatDiscovered == { d_slash_get, d_user_users }

\* the number of runs of discover_apis_in_repository on the same repository
MaxRuns == 2

\* all sequences over S of length at most n
SeqUpTo(S, n) == UNION {[1..k -> S] : k \in 0..n}

Copies == {"app", "services"}

\* min_confidence_threshold: float = 0.3
DefaultThreshold == Mul(Scale, 3, 10)

\* thresholds a matcher is constructed with: -0.5, 0, the default 0.3,
\* 0.7 (reportanalysis_enhanced.py) and 1.5
Thresholds == { 0 - Mul(Scale, 5, 10), 0, DefaultThreshold, Mul(Scale, 7, 10),
                Mul(Scale, 15, 10) }

(***************************************************************************)
(* _find_best_match of both copies                                         *)
(***************************************************************************)
\* the scores the scorers of one copy give to every pair of the universes
AppScores ==
    [q \in PerformanceUniverse \X DiscoveredUniverse |-> pair_scores(q[1], q[2])]

ServicesScores ==
    [q \in PerformanceUniverse \X DiscoveredUniverse |-> pair_scores_services(q[1], q[2])]

\* self._calculate_..._confidence(perf_api, source_api) and the combination,
\* read from the table of the matcher's copy
scores_of(table, perf_api_, source_api) == table[<<perf_api_, source_api>>]

\* if total_confidence > best_confidence: best_confidence, best_match = ...
\* best is <<best_match, best_confidence>>, best_match an index into
\* source_apis, 0 for None
update_best(best_, k, total_confidence) ==
    IF total_confidence > best_[2] THEN <<k, total_confidence>> ELSE best_

\* return (best_match, best_confidence) if best_match else (None, 0.0)
return_best(best_) == IF best_[1] # 0 THEN best_ ELSE <<0, 0>>

RECURSIVE find_best_from(_, _, _, _, _)
find_best_from(table, perf_api_, source_apis_, k, best_) ==
    IF k > Len(source_apis_) THEN best_
    ELSE find_best_from(table, perf_api_, source_apis_, k + 1,
             update_best(best_, k, scores_of(table, perf_api_, source_apis_[k]).total))

_find_best_match(table, perf_api_, source_apis_) ==
    return_best(find_best_from(table, perf_api_, source_apis_, 1, <<0, 0>>))

(***************************************************************************)
(* State                                                                   *)
(***************************************************************************)
VARIABLES
    copy,                      \* which module's APIMatcher: "app" or "services"
    score_cache,               \* the scores that copy's scorers give to each pair
    min_confidence_threshold,  \* self.min_confidence_threshold
    pc,                        \* position of match_apis: idle, loop, returned, raised
    performance_apis,          \* argument of match_apis
    source_apis,               \* argument of match_apis
    idx,                       \* position of  for perf_api in performance_apis
    locals_bound,              \* whether matches, unmatched_performance and
                               \* unmatched_source were assigned
    matches,                   \* local list of DetailedAnalysisResult
    unmatched_performance,     \* local list, as indices into performance_apis
    unmatched_source,          \* local list, as indices into source_apis
    result,                    \* what the call returned or raised
    previous,                  \* the earlier calls on the same two lists: the
                               \* threshold and the outcome of each
    fb_pc,                     \* position of _find_best_match: idle, loop, returned
    perf_api,                  \* argument of _find_best_match
    candidates,                \* argument source_apis of _find_best_match
    j,                         \* position of  for source_api in source_apis
    best,                      \* <<best_match, best_confidence>>
    scores,                    \* the scores of the pair scored last
    snapshot,                  \* the files of the repository at the branch
    failing,                   \* the requests of the run that fail until the
                               \* retries are exhausted
    dc_pc,                     \* position of discover_apis_in_repository:
                               \* idle, pool, returned
    files,                     \* local list files
    api_files,                 \* local list api_files
    pending,                   \* the tasks of the pool that have not completed
    completed,                 \* the completed futures as_completed has not
                               \* yielded yet, in completion order
    discovered_apis,           \* local list discovered_apis
    aggressive_apis,           \* discovered_apis of _aggressive_api_scan
    aggressive_ran,            \* whether _aggressive_api_scan was called
    dc_result,                 \* what discover_apis_in_repository returned
    earlier,                   \* the earlier runs on the same repository
    reads,                     \* the reads of the run whose request was followed
                               \* attempt by attempt: the file and the outcome
    _debug_worst_apis,         \* self._debug_worst_apis: <<>> for None, else
                               \* <<the list>>
    request_data,              \* enable_debug_samples and worst_apis of the
                               \* request the handler is serving
    fn_call,                   \* a call of a function without state: its name,
                               \* its arguments and what it returned
    rq_pc,                     \* position of _make_github_request: idle,
                               \* sleep, get, returned, raised
    attempt,                   \* loop variable of _make_github_request
    delay,                     \* local delay
    rq_log,                    \* the attempts made: attempt, delay slept, outcome
    rq_result                  \* what _make_github_request returned or raised

matchVars == <<pc, performance_apis, source_apis, idx, locals_bound, matches,
               unmatched_performance, unmatched_source, result>>

scoreVars == <<fb_pc, perf_api, candidates, j, best, scores>>

matcherVars == <<copy, score_cache, min_confidence_threshold, previous, matchVars, scoreVars>>

discoveryVars == <<snapshot, failing, dc_pc, files, api_files, pending, completed,
                   discovered_apis, aggressive_apis, aggressive_ran, dc_result, earlier,
                   reads>>

requestVars == <<rq_pc, attempt, delay, rq_log, rq_result>>

serviceVars == <<_debug_worst_apis, request_data, fn_call>>

\* everything but fn_call
machineVars == <<matcherVars, discoveryVars, requestVars, _debug_worst_apis, request_data>>

vars == <<matcherVars, discoveryVars, requestVars, serviceVars>>

NoResult ==
    [ kind |-> "none", status |-> "", matched_apis |-> <<>>, discovered_apis |-> <<>>,
      unmatched_performance_apis |-> <<>>, unmatched_source_apis |-> <<>> ]

NoScores == [ exact |-> 0, fuzzy |-> 0, phrase |-> 0, total |-> 0 ]

NoDiscovery == [ kind |-> "none", apis |-> <<>> ]

InitDiscoveryIdle ==
    /\ failing = {}
    /\ dc_pc = "idle"
    /\ files = <<>>
    /\ api_files = <<>>
    /\ pending = {}
    /\ completed = <<>>
    /\ discovered_apis = <<>>
    /\ aggressive_apis = <<>>
    /\ aggressive_ran = FALSE
    /\ dc_result = NoDiscovery
    /\ earlier = <<>>
    /\ reads = <<>>

\* self._debug_worst_apis = None
NoRequest == [ enable_debug_samples |-> FALSE, worst_apis |-> <<>> ]

NoCall == [ name |-> "none", args |-> <<>>, returned |-> <<>> ]

InitServiceIdle ==
    /\ _debug_worst_apis = <<>>
    /\ request_data = NoRequest
    /\ fn_call = NoCall

NoResponse == [ kind |-> "none", detail |-> "" ]

InitRequestIdle ==
    /\ rq_pc = "idle"
    /\ attempt = 0
    /\ delay = 0
    /\ rq_log = <<>>
    /\ rq_result = NoResponse

\* no call of match_apis or _find_best_match has been made
InitCallsIdle ==
    /\ pc = "idle"
    /\ performance_apis = <<>>
    /\ source_apis = <<>>
    /\ idx = 1
    /\ locals_bound = FALSE
    /\ matches = <<>>
    /\ unmatched_performance = <<>>
    /\ unmatched_source = <<>>
    /\ result = NoResult
    /\ previous = <<>>
    /\ fb_pc = "idle"
    /\ perf_api = Profile(<<>>)
    /\ candidates = <<>>
    /\ j = 1
    /\ best = <<0, 0>>
    /\ scores = NoScores

\* APIMatcher.__init__ stores the threshold as given
InitMatcher ==
    /\ score_cache = [app |-> AppScores, services |-> ServicesScores]
    /\ copy \in Copies
    /\ InitCallsIdle
    /\ snapshot = <<>>
    /\ InitDiscoveryIdle
    /\ InitRequestIdle
    /\ InitServiceIdle

Init == InitMatcher /\ min_confidence_threshold \in Thresholds

InitScore == InitMatcher /\ min_confidence_threshold = DefaultThreshold

\* thresholds of the repeated calls: 0, the default 0.3 and 0.7
RepeatThresholds == { 0, DefaultThreshold, Mul(Scale, 7, 10) }

InitRepeat == InitMatcher /\ min_confidence_threshold \in RepeatThresholds

(***************************************************************************)
(* match_apis                                                              *)
(***************************************************************************)
\* best_match and best_match[1] >= self.min_confidence_threshold
\* (a tuple of two is always truthy)
accepts(best_match, threshold) == best_match[2] >= threshold

\* new_match built from the first profile of the list instead of the current one
new_match_first_profile(perf_index, source_index, confidence, performance_apis_, source_apis_) ==
    [ api_endpoint        |-> source_apis_[source_index].endpoint,
      match_confidence    |-> confidence,
      performance_metrics |-> performance_apis_[1],
      file_path           |-> source_apis_[source_index].file_path,
      framework           |-> source_apis_[source_index].framework,
      perf_index          |-> 1,
      source_index        |-> source_index ]

\* the DetailedAnalysisResult of an accepted match; perf_index and
\* source_index record which list elements it was built from
new_match(perf_index, source_index, confidence, performance_apis_, source_apis_) ==
    [ api_endpoint        |-> source_apis_[source_index].endpoint,
      match_confidence    |-> confidence,
      performance_metrics |-> performance_apis_[perf_index],
      file_path           |-> source_apis_[source_index].file_path,
      framework           |-> source_apis_[source_index].framework,
      perf_index          |-> perf_index,
      source_index        |-> source_index ]

\* seq without its k-th element
RemoveAt(seq, k) == SubSeq(seq, 1, k - 1) \o SubSeq(seq, k + 1, Len(seq))

\* remove_selected that leaves the selected endpoint in the list
remove_selected_kept(unmatched_source_, source_apis_, source_index) == unmatched_source_

\* if source_api in unmatched_source: unmatched_source.remove(source_api)
\* both compare the records by value, and remove takes the first equal one
remove_selected(unmatched_source_, source_apis_, source_index) ==
    LET hits == {k \in 1..Len(unmatched_source_) :
                    source_apis_[unmatched_source_[k]] = source_apis_[source_index]}
    IN  IF hits = {} THEN unmatched_source_
        ELSE RemoveAt(unmatched_source_, CHOOSE k \in hits : \A m \in hits : k <= m)

\* append_unmatched that drops the rejected profile
append_unmatched_dropped(unmatched_performance_, perf_index) == unmatched_performance_

\* unmatched_performance.append(perf_api)
append_unmatched(unmatched_performance_, perf_index) ==
    Append(unmatched_performance_, perf_index)

\* determine_status testing for full_matches before no_matches
determine_status_full_first(n_matches, n_performance) ==
    IF n_matches = n_performance THEN "full_matches"
    ELSE IF n_matches = 0 THEN "no_matches"
    ELSE "partial_matches"

\* the status of the result, from len(matches) and len(performance_apis)
determine_status(n_matches, n_performance) ==
    IF n_matches = 0 THEN "no_matches"
    ELSE IF n_matches = n_performance THEN "full_matches"
    ELSE "partial_matches"

\* the call ends with an exception
raise(kind) ==
    /\ pc' = "raised"
    /\ result' = [NoResult EXCEPT !.kind = kind]
    /\ UNCHANGED <<performance_apis, source_apis, idx, locals_bound, matches,
                   unmatched_performance, unmatched_source>>

\* matches that starts from the list of the call before
initial_matches_kept(matches_) == matches_

\* matches = []
initial_matches(matches_) == <<>>

\* entry of match_apis: the app copy assigns the three local lists, the
\* services copy assigns none of them
enter_match_apis(perf, src) ==
    /\ performance_apis' = perf
    /\ source_apis' = src
    /\ locals_bound' = (copy = "app")
    /\ unmatched_source' = IF copy = "app" THEN [k \in 1..Len(src) |-> k] ELSE <<>>
    /\ idx' = 1
    /\ matches' = initial_matches(matches)
    /\ unmatched_performance' = <<>>
    /\ result' = NoResult
    /\ pc' = "loop"

match_apis_call ==
    /\ pc = "idle"
    /\ \E perf \in SeqUpTo(CallProfiles, MaxPerf), src \in SeqUpTo(CallDiscovered, MaxSrc) :
          enter_match_apis(perf, src)
    /\ UNCHANGED <<discoveryVars, requestVars, serviceVars, copy, score_cache, min_confidence_threshold, previous, scoreVars>>

\* one iteration of  for perf_api in performance_apis
match_apis_iteration ==
    /\ pc = "loop"
    /\ idx <= Len(performance_apis)
    /\ LET best_match == _find_best_match(score_cache[copy], performance_apis[idx], source_apis)
       IN  IF accepts(best_match, min_confidence_threshold)
           THEN IF best_match[1] = 0
                THEN raise("AttributeError")      \* source_api.file_path of None
                ELSE IF ~locals_bound
                THEN raise("NameError")           \* matches.append
                ELSE /\ matches' = Append(matches,
                            new_match(idx, best_match[1], best_match[2],
                                      performance_apis, source_apis))
                     /\ unmatched_source' =
                            remove_selected(unmatched_source, source_apis, best_match[1])
                     /\ idx' = idx + 1
                     /\ UNCHANGED <<pc, performance_apis, source_apis, locals_bound,
                                    unmatched_performance, result>>
           ELSE IF ~locals_bound
                THEN raise("NameError")           \* unmatched_performance.append
                ELSE /\ unmatched_performance' = append_unmatched(unmatched_performance, idx)
                     /\ idx' = idx + 1
                     /\ UNCHANGED <<pc, performance_apis, source_apis, locals_bound,
                                    matches, unmatched_source, result>>
    /\ UNCHANGED <<discoveryVars, requestVars, serviceVars, copy, score_cache, min_confidence_threshold, previous, scoreVars>>

\* after the loop: the status and the MatchingResult
match_apis_return ==
    /\ pc = "loop"
    /\ idx > Len(performance_apis)
    /\ IF ~locals_bound
       THEN raise("NameError")                    \* len(matches)
       ELSE /\ result' =
                 [ kind   |-> "MatchingResult",
                   status |-> determine_status(Len(matches), Len(performance_apis)),
                   matched_apis               |-> matches,
                   discovered_apis            |-> unmatched_source,
                   unmatched_performance_apis |-> unmatched_performance,
                   unmatched_source_apis      |-> unmatched_source ]
            /\ pc' = "returned"
            /\ UNCHANGED <<performance_apis, source_apis, idx, locals_bound, matches,
                           unmatched_performance, unmatched_source>>
    /\ UNCHANGED <<discoveryVars, requestVars, serviceVars, copy, score_cache, min_confidence_threshold, previous, scoreVars>>

Next == match_apis_call \/ match_apis_iteration \/ match_apis_return

Spec == Init /\ [][Next]_vars

(***************************************************************************)
(* match_apis called again on the same two lists                           *)
(***************************************************************************)
\* the first call on the two lists
match_apis_first ==
    /\ pc = "idle"
    /\ \E perf \in SeqUpTo(RepeatProfiles, MaxPerf), src \in SeqUpTo(RepeatDiscovered, MaxSrc) :
          enter_match_apis(perf, src)
    /\ UNCHANGED <<discoveryVars, requestVars, serviceVars, copy, score_cache, min_confidence_threshold, previous, scoreVars>>

\* APIMatcher(min_confidence_threshold=t).match_apis(performance_apis, source_apis)
\* after a call on the same two lists has returned or raised
match_apis_again ==
    /\ pc \in {"returned", "raised"}
    /\ Len(previous) + 1 < MaxCalls
    /\ previous' = Append(previous, [threshold |-> min_confidence_threshold, result |-> result])
    /\ min_confidence_threshold' \in RepeatThresholds
    /\ enter_match_apis(performance_apis, source_apis)
    /\ UNCHANGED <<discoveryVars, requestVars, serviceVars, copy, score_cache, scoreVars>>

NextRepeat == match_apis_first \/ match_apis_iteration \/ match_apis_return \/ match_apis_again

SpecRepeat == InitRepeat /\ [][NextRepeat]_vars

(***************************************************************************)
(* _find_best_match, one candidate at a time                               *)
(***************************************************************************)
find_best_call ==
    /\ fb_pc = "idle"
    /\ perf_api' \in PerformanceUniverse
    /\ candidates' \in SeqUpTo(DiscoveredUniverse, MaxSrc)
    /\ j' = 1
    /\ best' = <<0, 0>>
    /\ scores' = NoScores
    /\ fb_pc' = "loop"
    /\ UNCHANGED <<discoveryVars, requestVars, serviceVars, copy, score_cache, min_confidence_threshold, previous, matchVars>>

\* one iteration of  for source_api in source_apis
find_best_iteration ==
    /\ fb_pc = "loop"
    /\ j <= Len(candidates)
    /\ scores' = scores_of(score_cache[copy], perf_api, candidates[j])
    /\ best' = update_best(best, j, scores'.total)
    /\ j' = j + 1
    /\ UNCHANGED <<discoveryVars, requestVars, serviceVars, copy, score_cache, min_confidence_threshold, previous, matchVars, fb_pc, perf_api, candidates>>

find_best_return ==
    /\ fb_pc = "loop"
    /\ j > Len(candidates)
    /\ best' = return_best(best)
    /\ fb_pc' = "returned"
    /\ UNCHANGED <<discoveryVars, requestVars, serviceVars, copy, score_cache, min_confidence_threshold, previous, matchVars, perf_api, candidates, j, scores>>

NextScore == find_best_call \/ find_best_iteration \/ find_best_return

SpecScore == InitScore /\ [][NextScore]_vars

(***************************************************************************)
(* match_apis_with_color_coding                                            *)
(***************************************************************************)
\* an APIPerformanceProfile with the given measurements
Measured(endpoint, avg_response_time_ms, error_rate_percent, throughput_rps, percentile_95_latency_ms) ==
    [ endpoint                 |-> endpoint,
      avg_response_time_ms     |-> avg_response_time_ms,
      error_rate_percent       |-> error_rate_percent,
      throughput_rps           |-> throughput_rps,
      percentile_95_latency_ms |-> percentile_95_latency_ms ]

\* _has_performance_issues(perf_api): thresholds 1000 ms, 5.0 % and 50 RPS
_has_performance_issues(perf_api_) ==
    \/ perf_api_.avg_response_time_ms > 1000
    \/ perf_api_.error_rate_percent > 5
    \/ perf_api_.throughput_rps < 50

\* _get_color_indicator(perf_api, has_issues)
_get_color_indicator(has_issues) == IF has_issues THEN "red" ELSE "green"

\* _get_performance_issues_list(perf_api): one entry for each measurement
\* beyond its threshold
_get_performance_issues_list(perf_api_) ==
    (IF perf_api_.avg_response_time_ms > 1000 THEN <<"High response time">> ELSE <<>>)
    \o (IF perf_api_.error_rate_percent > 5 THEN <<"High error rate">> ELSE <<>>)
    \o (IF perf_api_.throughput_rps < 50 THEN <<"Low throughput">> ELSE <<>>)
    \o (IF perf_api_.percentile_95_latency_ms > 2000
        THEN <<"High 95th percentile latency">> ELSE <<>>)

\* the scorers read nothing of perf_api but its endpoint
best_match_of(table, perf_api_, source_apis_) ==
    _find_best_match(table, Profile(perf_api_.endpoint), source_apis_)

\* matched_api = {...}; is_matched is True in the app copy and
\* has_performance_issues in the services copy
matched_api_of(copy_, perf_api_, source_apis_, best_match) ==
    [ api_endpoint        |-> source_apis_[best_match[1]].endpoint,
      match_confidence    |-> best_match[2],
      is_matched          |-> IF copy_ = "app" THEN TRUE
                              ELSE _has_performance_issues(perf_api_),
      color_indicator     |-> _get_color_indicator(_has_performance_issues(perf_api_)),
      performance_metrics |-> perf_api_,
      file_path           |-> source_apis_[best_match[1]].file_path,
      framework           |-> source_apis_[best_match[1]].framework,
      performance_issues  |-> _get_performance_issues_list(perf_api_),
      source_index        |-> best_match[1] ]

RECURSIVE color_coding_loop(_, _, _, _, _, _, _)
\* for i, perf_api in enumerate(performance_apis): ...; source_api.endpoint
\* raises AttributeError when the accepted best_match is (None, 0.0)
color_coding_loop(table, copy_, threshold, performance_apis_, source_apis_, k, matched) ==
    IF k > Len(performance_apis_) THEN [ kind |-> "list", matched |-> matched ]
    ELSE IF accepts(best_match_of(table, performance_apis_[k], source_apis_), threshold)
         THEN IF best_match_of(table, performance_apis_[k], source_apis_)[1] = 0
              THEN [ kind |-> "AttributeError", matched |-> <<>> ]
              ELSE color_coding_loop(table, copy_, threshold, performance_apis_, source_apis_,
                       k + 1,
                       Append(matched,
                              matched_api_of(copy_, performance_apis_[k], source_apis_,
                                  best_match_of(table, performance_apis_[k], source_apis_))))
         ELSE color_coding_loop(table, copy_, threshold, performance_apis_, source_apis_,
                                k + 1, matched)

\* measurements at and beyond each threshold
ResponseTimes == { 100, 1000, 1001 }

ErrorRates == { 0, 5, 6 }

Throughputs == { 49, 50, 100 }

Latencies == { 100, 2000, 2001 }

ColorEndpoints == { p_get_api_users_id.endpoint, p_ab.endpoint }

ColorProfiles ==
    { Measured(e, t, r, q, l) :
        e \in ColorEndpoints, t \in ResponseTimes, r \in ErrorRates, q \in Throughputs,
        l \in Latencies }

ColorDiscovered == { d_get_api_users_id_A, d_cd }

\* one call of match_apis_with_color_coding
match_apis_with_color_coding ==
    /\ fn_call.name = "none"
    /\ \E performance_apis_ \in SeqUpTo(ColorProfiles, 1),
          source_apis_ \in SeqUpTo(ColorDiscovered, 2) :
          fn_call' = [ name |-> "match_apis_with_color_coding",
                       args |-> [ performance_apis |-> performance_apis_,
                                  source_apis |-> source_apis_ ],
                       returned |-> color_coding_loop(score_cache[copy], copy,
                                        min_confidence_threshold, performance_apis_,
                                        source_apis_, 1, <<>>) ]
    /\ UNCHANGED machineVars

NextColor == match_apis_with_color_coding

SpecColor == Init /\ [][NextColor]_vars

(***************************************************************************)
(* GitHubService: extraction and de-duplication                            *)
(***************************************************************************)
s_http_verbs_upper ==
    { <<"G","E","T">>, <<"P","O","S","T">>, <<"P","U","T">>, <<"D","E","L","E","T","E">>,
      <<"P","A","T","C","H">>, <<"H","E","A","D">>, <<"O","P","T","I","O","N","S">> }

\* the prefixes _aggressive_api_scan rejects
aggressive_rejected_prefixes ==
    { <<"u","n","k","n","o","w","n">>, <<"H","T","T","P">>, 
      <<"$","P","R","O","J","E","C","T","_","D","I","R","$">>, 
      <<"f","i","l","e",":","/","/">>, 
      <<"A","P","I"," ","a","u","t","o","c","a","p","i","t","a","l","i","z","e">>, 
      <<"A","P","I"," ">>, <<"a","u","t","o","c","a","p","i","t","a","l","i","z","e">>, 
      <<"a","u","t","o","c","o","r","r","e","c","t">>, 
      <<"s","h","a","d","o","w","_","r","o","o","t">>, <<"v","a","l","u","e">>, 
      <<"n","a","m","e">>, <<"p","a","s","s","w","o","r","d">>, 
      <<"u","s","e","r","-","n","a","m","e">>, <<"c","o","m","p","o","n","e","n","t">>, 
      <<"m","o","d","u","l","e">>, <<"p","r","o","j","e","c","t">>, 
      <<"m","o","d","u","l","e","s">>, <<"f","i","l","e","u","r","l">>, 
      <<"f","i","l","e","p","a","t","h">>, 
      <<"P","r","o","j","e","c","t","M","o","d","u","l","e","M","a","n","a","g","e","r">>, 
      <<"T","e","g","a">>, <<"i","n","f","s","v","c">>, <<"j","i","r","a">>, 
      <<"t","e","s","t","c","a","s","e">>, <<"b","u","i","l","d","e","r">>, 
      <<"a","g","e","n","t","_","h","i","s","t","o","r","y">>, 
      <<"h","i","s","t","o","r","y">>, <<"a","g","e","n","t">>, <<"j","s","o","n">>, 
      <<"x","m","l">>, <<"y","m","l">>, <<"y","a","m","l">>, <<"m","d">>, 
      <<"t","x","t">>, <<"l","o","g">>, <<"l","o","c","k">>, <<".","i","d","e","a">>, 
      <<".","v","s","c","o","d","e">>, 
      <<"n","o","d","e","_","m","o","d","u","l","e","s">>, 
      <<"_","_","p","y","c","a","c","h","e","_","_">>, <<".","g","i","t">>, 
      <<"v","e","n","v">>, <<"e","n","v">>, <<"b","i","n">>, <<"o","b","j">>, 
      <<"p","a","c","k","a","g","e","s">>, <<"t","a","r","g","e","t">>, 
      <<"b","u","i","l","d">>, <<"d","i","s","t">>, 
      <<"c","o","v","e","r","a","g","e">>, 
      <<".","p","y","t","e","s","t","_","c","a","c","h","e">>, <<"l","o","g","s">>, 
      <<"t","e","s","t">>, <<"t","e","s","t","s">>, <<"s","p","e","c">>, 
      <<"s","p","e","c","s">>, <<"d","o","c","s">>, 
      <<"d","o","c","u","m","e","n","t","a","t","i","o","n">>, 
      <<"a","s","s","e","t","s">>, <<"s","t","a","t","i","c">>, 
      <<"p","u","b","l","i","c">>, <<"r","e","s","o","u","r","c","e","s">>, 
      <<"c","o","n","f","i","g">>, <<".","e","n","v">>, 
      <<".","g","i","t","i","g","n","o","r","e">>, 
      <<".","g","i","t","a","t","t","r","i","b","u","t","e","s">>, 
      <<"p","a","c","k","a","g","e","-","l","o","c","k">>, 
      <<"y","a","r","n",".","l","o","c","k">>, 
      <<"c","o","m","p","o","s","e","r",".","l","o","c","k">>, 
      <<"p","o","m",".","x","m","l">>, 
      <<"b","u","i","l","d",".","g","r","a","d","l","e">>, 
      <<"r","e","q","u","i","r","e","m","e","n","t","s",".","t","x","t">>, 
      <<"P","i","p","f","i","l","e">>, <<"p","o","e","t","r","y",".","l","o","c","k">> }

\* the prefixes the filter of _extract_apis_from_file rejects
extract_rejected_prefixes ==
    { <<"h","t","t","p",":","/","/">>, <<"h","t","t","p","s",":","/","/">>, 
      <<"w","w","w",".">>, <<"f","t","p",":","/","/">>, 
      <<"f","i","l","e",":","/","/">>, <<"u","n","k","n","o","w","n">>, 
      <<"H","T","T","P">>, <<"$","P","R","O","J","E","C","T","_","D","I","R","$">>, 
      <<"A","P","I"," ","a","u","t","o","c","a","p","i","t","a","l","i","z","e">>, 
      <<"A","P","I"," ">>, <<"a","u","t","o","c","a","p","i","t","a","l","i","z","e">>, 
      <<"a","u","t","o","c","o","r","r","e","c","t">>, 
      <<"s","h","a","d","o","w","_","r","o","o","t">>, <<"v","a","l","u","e">>, 
      <<"n","a","m","e">>, <<"p","a","s","s","w","o","r","d">>, 
      <<"u","s","e","r","-","n","a","m","e">>, <<"c","o","m","p","o","n","e","n","t">>, 
      <<"m","o","d","u","l","e">>, <<"p","r","o","j","e","c","t">>, 
      <<"m","o","d","u","l","e","s">>, <<"f","i","l","e","u","r","l">>, 
      <<"f","i","l","e","p","a","t","h">>, 
      <<"P","r","o","j","e","c","t","M","o","d","u","l","e","M","a","n","a","g","e","r">>, 
      <<"T","e","g","a">>, <<"i","n","f","s","v","c">>, <<"j","i","r","a">>, 
      <<"t","e","s","t","c","a","s","e">>, <<"b","u","i","l","d","e","r">>, 
      <<"a","g","e","n","t","_","h","i","s","t","o","r","y">>, 
      <<"h","i","s","t","o","r","y">>, <<"a","g","e","n","t">>, <<"j","s","o","n">>, 
      <<"x","m","l">>, <<"y","m","l">>, <<"y","a","m","l">>, <<"m","d">>, 
      <<"t","x","t">>, <<"l","o","g">>, <<"l","o","c","k">>, <<".","i","d","e","a">>, 
      <<".","v","s","c","o","d","e">>, 
      <<"n","o","d","e","_","m","o","d","u","l","e","s">>, 
      <<"_","_","p","y","c","a","c","h","e","_","_">>, <<".","g","i","t">>, 
      <<"v","e","n","v">>, <<"e","n","v">>, <<"b","i","n">>, <<"o","b","j">>, 
      <<"p","a","c","k","a","g","e","s">>, <<"t","a","r","g","e","t">>, 
      <<"b","u","i","l","d">>, <<"d","i","s","t">>, 
      <<"c","o","v","e","r","a","g","e">>, 
      <<".","p","y","t","e","s","t","_","c","a","c","h","e">>, <<"l","o","g","s">>, 
      <<"t","e","s","t">>, <<"t","e","s","t","s">>, <<"s","p","e","c">>, 
      <<"s","p","e","c","s">>, <<"d","o","c","s">>, 
      <<"d","o","c","u","m","e","n","t","a","t","i","o","n">>, 
      <<"a","s","s","e","t","s">>, <<"s","t","a","t","i","c">>, 
      <<"p","u","b","l","i","c">>, <<"r","e","s","o","u","r","c","e","s">>, 
      <<"c","o","n","f","i","g">>, <<".","e","n","v">>, 
      <<".","g","i","t","i","g","n","o","r","e">>, 
      <<".","g","i","t","a","t","t","r","i","b","u","t","e","s">>, 
      <<"p","a","c","k","a","g","e","-","l","o","c","k">>, 
      <<"y","a","r","n",".","l","o","c","k">>, 
      <<"c","o","m","p","o","s","e","r",".","l","o","c","k">>, 
      <<"p","o","m",".","x","m","l">>, 
      <<"b","u","i","l","d",".","g","r","a","d","l","e">>, 
      <<"r","e","q","u","i","r","e","m","e","n","t","s",".","t","x","t">>, 
      <<"P","i","p","f","i","l","e">>, <<"p","o","e","t","r","y",".","l","o","c","k">>, 
      <<".">>, <<" ">> }


\* the substrings the filter of _extract_apis_from_file rejects
extract_rejected_substrings ==
    { <<"g","o","o","g","l","e","a","p","i","s",".","c","o","m">>,
      <<"y","o","u","t","u",".","b","e">>, <<"y","o","u","t","u","b","e",".","c","o","m">>,
      <<"l","o","c","a","l","h","o","s","t",":">>, <<"1","2","7",".","0",".","0",".","1">> }

\* str.isdigit()
isdigit(s) == s # <<>> /\ \A k \in DOMAIN s : s[k] \in Digits

\* '/' in endpoint or endpoint.startswith(('GET', 'POST', ...))
looks_like_api(endpoint) ==
    contains(<<"/">>, endpoint) \/ \E v \in s_http_verbs_upper : startswith(endpoint, v)

\* the filter of _extract_apis_from_file on the stripped endpoint
extract_keeps(endpoint) ==
    /\ \A p \in extract_rejected_prefixes : ~startswith(endpoint, p)
    /\ \A p \in extract_rejected_substrings : ~contains(p, endpoint)
    /\ Len(endpoint) > 3
    /\ ~isdigit(endpoint)
    /\ ~endswith(endpoint, <<".">>)
    /\ ~endswith(endpoint, <<" ">>)
    /\ looks_like_api(endpoint)

\* the filter of _aggressive_api_scan on api.endpoint
aggressive_keeps(endpoint) ==
    /\ Len(strip(endpoint, WhiteSpace)) > 0
    /\ \A p \in aggressive_rejected_prefixes : ~startswith(endpoint, p)
    /\ looks_like_api(endpoint)
    /\ Len(endpoint) > 3
    /\ ~isdigit(endpoint)
    /\ ~startswith(endpoint, <<".">>)
    /\ ~endswith(endpoint, <<".">>)
    /\ ~startswith(endpoint, <<" ">>)
    /\ ~endswith(endpoint, <<" ">>)

\* DiscoveredAPI(endpoint=..., file_path=..., line_number=...)
DiscoveredAPI(endpoint, file_path, line_number) ==
    [ endpoint |-> endpoint, file_path |-> file_path, line_number |-> line_number ]

RECURSIVE filter_extracted(_, _, _)
\* the loop over apis of _extract_apis_from_file: an endpoint seen before
\* (stripped) is skipped, then the filter decides
filter_extracted(apis, k, seen_endpoints) ==
    IF k > Len(apis) THEN <<>>
    ELSE LET endpoint == strip(apis[k].endpoint, WhiteSpace)
         IN  IF endpoint = <<>> \/ endpoint \in seen_endpoints
             THEN filter_extracted(apis, k + 1, seen_endpoints)
             ELSE (IF extract_keeps(endpoint) THEN <<apis[k]>> ELSE <<>>)
                  \o filter_extracted(apis, k + 1, seen_endpoints \cup {endpoint})

\* _extract_apis_from_file(content, file_path) without a bedrock service:
\* the pattern matches of the file as records, filtered
_extract_apis_from_file(file) ==
    filter_extracted(
        [k \in 1..Len(file.matches) |->
            DiscoveredAPI(file.matches[k].endpoint, file.path, file.matches[k].line_number)],
        1, {})

\* unique_key that leaves the file path out
unique_key_endpoint_only(api) == api.endpoint

\* unique_key = f"{api.endpoint}|{api.file_path}"
unique_key(api) == api.endpoint \o <<"|">> \o api.file_path

RECURSIVE final_deduplication(_, _, _)
\* Final deduplication across all files
final_deduplication(apis, k, seen_endpoints) ==
    IF k > Len(apis) THEN <<>>
    ELSE IF unique_key(apis[k]) \in seen_endpoints
    THEN final_deduplication(apis, k + 1, seen_endpoints)
    ELSE <<apis[k]>> \o final_deduplication(apis, k + 1, seen_endpoints \cup {unique_key(apis[k])})

RECURSIVE aggressive_deduplication(_, _, _)
\* Remove duplicates and filter out low-quality matches
aggressive_deduplication(apis, k, seen_endpoints) ==
    IF k > Len(apis) THEN <<>>
    ELSE IF apis[k].endpoint \notin seen_endpoints /\ aggressive_keeps(apis[k].endpoint)
    THEN <<apis[k]>> \o aggressive_deduplication(apis, k + 1, seen_endpoints \cup {apis[k].endpoint})
    ELSE aggressive_deduplication(apis, k + 1, seen_endpoints)

(***************************************************************************)
(* GitHubService: the repository and the requests                          *)
(***************************************************************************)
\* a file of the repository: its path, what _is_api_file gives for the path,
\* whether the path ends with an extension of _aggressive_api_scan, and the
\* endpoints the patterns of _extract_apis_from_file match in its content
RepoFile(path, is_api_file, has_scanned_extension, matches_) ==
    [ path |-> path, is_api_file |-> is_api_file,
      has_scanned_extension |-> has_scanned_extension, matches |-> matches_,
      decodable |-> TRUE ]

\* the same file with bytes that .decode('utf-8') raises UnicodeDecodeError for
Undecodable(file) == [ file EXCEPT !.decodable = FALSE ]

Match(endpoint, line_number) == [ endpoint |-> endpoint, line_number |-> line_number ]

e_get_u == <<"G","E","T"," ","/","u">>

e_post_u == <<"P","O","S","T"," ","/","u">>

e_get_o == <<"G","E","T"," ","/","o">>

\* a.py and b.py are API files, db/a.py is not ('db/' is a skip pattern)
RepoPrimary ==
    << RepoFile(<<"a",".","p","y">>, TRUE, TRUE,
                << Match(e_get_u, 2), Match(e_get_u, 5), Match(e_post_u, 8) >>),
       RepoFile(<<"b",".","p","y">>, TRUE, TRUE,
                << Match(e_get_u, 3), Match(e_get_o, 6) >>),
       RepoFile(<<"d","b","/","a",".","p","y">>, FALSE, TRUE,
                << Match(e_get_o, 4) >>) >>

\* no API file: only the aggressive scan reads these
RepoFallback ==
    << RepoFile(<<"d","b","/","a",".","p","y">>, FALSE, TRUE,
                << Match(e_get_u, 2) >>),
       RepoFile(<<"d","b","/","b",".","p","y">>, FALSE, TRUE,
                << Match(e_get_u, 4), Match(e_get_o, 7) >>) >>

Snapshots == { RepoPrimary, RepoFallback }

\* the path of the root listing
root_path == <<>>

\* the requests of a run: the listing of the root and the read of each file
requests_of(snapshot_) == {root_path} \cup {snapshot_[k].path : k \in DOMAIN snapshot_}

\* get_repository_contents: [] when _make_github_request raised
get_repository_contents(snapshot_, failing_) ==
    IF root_path \in failing_ THEN <<>> ELSE snapshot_

\* _get_all_files of a repository whose files are all in the root listing
_get_all_files(snapshot_, failing_) == get_repository_contents(snapshot_, failing_)

\* get_file_content: None (FALSE) when _make_github_request raised or the
\* decoding of the content raised
get_file_content(file, failing_) == file.path \notin failing_ /\ file.decodable

\* for file_info in files: if self._is_api_file(...): api_files.append(...),
\* at most max_files_to_process of them
max_files_to_process == 100

api_files_of(files_) ==
    LET selected == SelectSeq(files_, LAMBDA f : f.is_api_file)
    IN  SubSeq(selected, 1, Min2(Len(selected), max_files_to_process))

\* _process_single_file: [] when the content could not be read
_process_single_file(file, failing_) ==
    IF get_file_content(file, failing_) THEN _extract_apis_from_file(file) ELSE <<>>

RECURSIVE aggressive_collect(_, _, _)
\* the loop of _aggressive_api_scan over all_files
aggressive_collect(all_files, k, failing_) ==
    IF k > Len(all_files) THEN <<>>
    ELSE (IF all_files[k].has_scanned_extension /\ get_file_content(all_files[k], failing_)
          THEN _extract_apis_from_file(all_files[k])
          ELSE <<>>)
         \o aggressive_collect(all_files, k + 1, failing_)

\* a GitHubService on one repository; no matcher is involved
InitGitHub ==
    /\ score_cache = <<>>
    /\ copy = "app"
    /\ min_confidence_threshold = DefaultThreshold
    /\ InitCallsIdle
    /\ InitDiscoveryIdle
    /\ InitRequestIdle
    /\ InitServiceIdle

InitDiscovery == InitGitHub /\ snapshot \in Snapshots

InitRequest == InitGitHub /\ snapshot = <<>>

(***************************************************************************)
(* discover_apis_in_repository                                             *)
(***************************************************************************)
\* entry of discover_apis_in_repository up to the submission of the tasks;
\* failing holds the requests that fail until the retries are exhausted
enter_discovery ==
    /\ \E failing_ \in SUBSET requests_of(snapshot) :
          /\ failing' = failing_
          /\ files' = _get_all_files(snapshot, failing_)
          /\ api_files' = api_files_of(_get_all_files(snapshot, failing_))
          /\ pending' = DOMAIN api_files_of(_get_all_files(snapshot, failing_))
    /\ completed' = <<>>
    /\ discovered_apis' = <<>>
    /\ aggressive_apis' = <<>>
    /\ aggressive_ran' = FALSE
    /\ dc_result' = NoDiscovery
    /\ reads' = <<>>
    /\ dc_pc' = "pool"

discover_call ==
    /\ dc_pc = "idle"
    /\ enter_discovery
    /\ UNCHANGED <<snapshot, earlier>>
    /\ UNCHANGED <<matcherVars, requestVars, serviceVars>>

\* a worker finishes the task of one file: its future completes
worker_completes ==
    /\ dc_pc = "pool"
    /\ \E k \in pending :
          /\ pending' = pending \ {k}
          /\ completed' = Append(completed,
                 [file |-> k, apis |-> _process_single_file(api_files[k], failing)])
    /\ UNCHANGED <<snapshot, failing, dc_pc, files, api_files, discovered_apis,
                   aggressive_apis, aggressive_ran, dc_result, earlier, reads>>
    /\ UNCHANGED <<matcherVars, requestVars, serviceVars>>

\* for future in as_completed(future_to_file): discovered_apis.extend(apis)
collect_completed ==
    /\ dc_pc = "pool"
    /\ completed # <<>>
    /\ discovered_apis' = discovered_apis \o Head(completed).apis
    /\ completed' = Tail(completed)
    /\ UNCHANGED <<snapshot, failing, dc_pc, files, api_files, pending,
                   aggressive_apis, aggressive_ran, dc_result, earlier, reads>>
    /\ UNCHANGED <<matcherVars, requestVars, serviceVars>>

\* if not discovered_apis, whatever the list holds
run_aggressive_scan_always(discovered_apis_) == TRUE

\* if not discovered_apis: discovered_apis = self._aggressive_api_scan(...)
run_aggressive_scan(discovered_apis_) == discovered_apis_ = <<>>

s_controllers == <<"C","o","n","t","r","o","l","l","e","r","s","/">>

sample_digit(i) == << "1", "2", "3", "4", "5" >>[i]

\* _create_debug_sample_apis: one record for each of the first five worst
\* APIs, or the three generic records when the list is empty
_create_debug_sample_apis(worst_apis) ==
    IF worst_apis # <<>>
    THEN [ i \in 1..Min2(Len(worst_apis), 5) |->
             DiscoveredAPI(worst_apis[i].endpoint,
                           s_controllers \o <<"A","p","i","C","o","n","t","r","o","l","l","e","r">> \o <<sample_digit(i)>> \o <<".","c","s">>,
                           25 + (i - 1) * 10) ]
    ELSE << DiscoveredAPI(<<"G","E","T"," ","/","a","p","i","/","b","a","s","e","s","t","a","t","i","o","n","s">>,
                          s_controllers \o <<"B","a","s","e","S","t","a","t","i","o","n","C","o","n","t","r","o","l","l","e","r",".","c","s">>, 25),
            DiscoveredAPI(<<"G","E","T"," ","/","a","p","i","/","a","s","s","e","t","s">>,
                          s_controllers \o <<"A","s","s","e","t","C","o","n","t","r","o","l","l","e","r",".","c","s">>, 42),
            DiscoveredAPI(<<"G","E","T"," ","/","a","p","i","/","a","l","e","r","t","s">>,
                          s_controllers \o <<"A","l","e","r","t","C","o","n","t","r","o","l","l","e","r",".","c","s">>, 58) >>

\* if not discovered_apis: ... if self._debug_worst_apis is not None:
\*     discovered_apis = self._create_debug_sample_apis()
with_debug_samples(discovered_apis_, debug_worst_apis_) ==
    IF discovered_apis_ = <<>> /\ debug_worst_apis_ # <<>>
    THEN _create_debug_sample_apis(debug_worst_apis_[1])
    ELSE discovered_apis_

\* after the pool: the aggressive scan when nothing was found, the debug
\* samples when still nothing was found, the final deduplication and the
\* return
discover_return ==
    /\ dc_pc = "pool"
    /\ pending = {}
    /\ completed = <<>>
    /\ aggressive_ran' = run_aggressive_scan(discovered_apis)
    /\ aggressive_apis' =
          IF run_aggressive_scan(discovered_apis)
          THEN aggressive_collect(_get_all_files(snapshot, failing), 1, failing)
          ELSE <<>>
    /\ dc_result' =
          [ kind |-> "list",
            apis |-> final_deduplication(
                        with_debug_samples(
                            IF run_aggressive_scan(discovered_apis)
                            THEN aggressive_deduplication(aggressive_apis', 1, {})
                            ELSE discovered_apis,
                            _debug_worst_apis),
                        1, {}) ]
    /\ dc_pc' = "returned"
    /\ UNCHANGED <<snapshot, failing, files, api_files, pending, completed,
                   discovered_apis, earlier, reads>>
    /\ UNCHANGED <<matcherVars, requestVars, serviceVars>>

\* discover_apis_in_repository called again on the same repository and branch
discover_again ==
    /\ dc_pc = "returned"
    /\ Len(earlier) + 1 < MaxRuns
    /\ earlier' = Append(earlier, [failing |-> failing, result |-> dc_result])
    /\ enter_discovery
    /\ UNCHANGED snapshot
    /\ UNCHANGED <<matcherVars, requestVars, serviceVars>>

NextDiscovery ==
    discover_call \/ worker_completes \/ collect_completed \/ discover_return
        \/ discover_again

SpecDiscovery == InitDiscovery /\ [][NextDiscovery]_vars

(***************************************************************************)
(* The handler of reportanalysis_enhanced_v2 and the debug samples         *)
(***************************************************************************)
\* a repository whose only API file holds no endpoint
RepoEmpty == << RepoFile(<<"a",".","p","y">>, TRUE, TRUE, <<>>) >>

DebugSnapshots == { RepoPrimary, RepoEmpty }

\* the worst_apis of a request: never empty, the handler answers 400 otherwise
WorstLists == { << [endpoint |-> e_get_u] >>,
                << [endpoint |-> e_get_o], [endpoint |-> e_post_u] >> }

InitDebug == InitGitHub /\ snapshot \in DebugSnapshots

\* self._debug_worst_apis = worst_apis
set_debug_worst_apis(worst_apis) == _debug_worst_apis' = <<worst_apis>>

\* the handler on the module's github_service, from the request to the
\* submission of the tasks of discover_apis_in_repository:
\*   if request_data.get('enable_debug_samples') is True:
\*       github_service.set_debug_worst_apis(worst_apis)
\*   discovered_apis = github_service.discover_apis_in_repository(...)
analyze_request ==
    /\ \/ dc_pc = "idle" /\ UNCHANGED earlier
       \/ /\ dc_pc = "returned"
          /\ Len(earlier) + 1 < MaxRuns
          /\ earlier' = Append(earlier, [failing |-> failing, result |-> dc_result])
    /\ \E enable \in BOOLEAN, worst_apis \in WorstLists :
          /\ request_data' = [ enable_debug_samples |-> enable, worst_apis |-> worst_apis ]
          /\ IF enable THEN set_debug_worst_apis(worst_apis)
                       ELSE UNCHANGED _debug_worst_apis
    /\ enter_discovery
    /\ UNCHANGED snapshot
    /\ UNCHANGED <<matcherVars, requestVars, fn_call>>

NextDebug == analyze_request \/ worker_completes \/ collect_completed \/ discover_return

SpecDebug == InitDebug /\ [][NextDebug]_vars

(***************************************************************************)
(* GitHubService._extract_apis_from_file_chunked                           *)
(***************************************************************************)
\* chunk_size = 8192, counted in lines by range(0, total_lines, chunk_size)
chunk_size == 8192

\* overlap = 1024
overlap == 1024

\* a file of more than 1 MB: its path, its number of lines and the pattern
\* matches of its content, by line
LargeFile(path, total_lines, matches_) ==
    [ path |-> path, total_lines |-> total_lines, matches |-> matches_ ]

\* whether the service object has an attribute token: __init__ assigns
\* self.github_token and nothing assigns self.token
has_token == FALSE

\* chunk_start = max(0, start_line - overlap // 2)
chunk_start_of(start_line) == Max2(0, start_line - overlap \div 2)

\* end_line = min(start_line + chunk_size, total_lines)
\* chunk_end = min(total_lines, end_line + overlap // 2)
chunk_end_of(start_line, total_lines) ==
    Min2(total_lines, Min2(start_line + chunk_size, total_lines) + overlap \div 2)

\* '\n'.join(lines[chunk_start:chunk_end]): the matches of those lines,
\* numbered from the first line of the chunk
chunk_content(file, start_line) ==
    LET inside == SelectSeq(file.matches,
                     LAMBDA mt : /\ chunk_start_of(start_line) <= mt.line_number - 1
                                 /\ mt.line_number - 1 < chunk_end_of(start_line, file.total_lines))
    IN  [ path |-> file.path,
          matches |-> [ k \in 1..Len(inside) |->
                          Match(inside[k].endpoint,
                                inside[k].line_number - chunk_start_of(start_line)) ] ]

\* chunk_apis = self._extract_apis_from_file(chunk_content, file_path)
\* for api in chunk_apis: api.line_number += chunk_start
chunk_apis_of(file, start_line) ==
    LET chunk_apis == _extract_apis_from_file(chunk_content(file, start_line))
    IN  [ k \in 1..Len(chunk_apis) |->
            [ chunk_apis[k] EXCEPT !.line_number = @ + chunk_start_of(start_line) ] ]

RECURSIVE chunk_loop(_, _, _)
\* for start_line in range(0, total_lines, chunk_size), with the break when
\* len(all_apis) > 50
chunk_loop(file, start_line, all_apis) ==
    IF start_line >= file.total_lines THEN all_apis
    ELSE IF Len(all_apis \o chunk_apis_of(file, start_line)) > 50
         THEN all_apis \o chunk_apis_of(file, start_line)
         ELSE chunk_loop(file, start_line + chunk_size,
                         all_apis \o chunk_apis_of(file, start_line))

RECURSIVE unique_by_endpoint_and_line(_, _, _)
\* key = (api.endpoint, api.line_number); if key not in seen: ...
unique_by_endpoint_and_line(apis, k, seen) ==
    IF k > Len(apis) THEN <<>>
    ELSE IF <<apis[k].endpoint, apis[k].line_number>> \in seen
         THEN unique_by_endpoint_and_line(apis, k + 1, seen)
         ELSE <<apis[k]>> \o unique_by_endpoint_and_line(apis, k + 1,
                  seen \cup {<<apis[k].endpoint, apis[k].line_number>>})

\* _extract_apis_from_file_chunked of a file the request for which would be
\* answered 200: the evaluation of self.token raises AttributeError inside
\* the try, and  except Exception: return []
_extract_apis_from_file_chunked(file) ==
    IF ~has_token THEN <<>>
    ELSE unique_by_endpoint_and_line(chunk_loop(file, 0, <<>>), 1, {})

\* the lines a match can be on: in the first chunk only, in the overlap of
\* the first two chunks, in the second chunk only
LargeFileLines == { 2, 8000, 9000 }

LargeFileEndpoints == { e_get_u, e_post_u, e_get_o }

\* the files of 10000 lines with at most one match on each of those lines
LargeFiles ==
    { LargeFile(<<"b","i","g",".","p","y">>, 10000, matches_) :
        matches_ \in { ms \in SeqUpTo([endpoint : LargeFileEndpoints,
                                         line_number : LargeFileLines], 3) :
                         \A a, b \in DOMAIN ms :
                             a < b => ms[a].line_number < ms[b].line_number } }

\* nothing returned yet
NotReturned == <<>>

\* the content of a large file is to be extracted
large_file_call ==
    /\ fn_call.name = "none"
    /\ \E file \in LargeFiles :
          fn_call' = [ name |-> "large_file", args |-> file,
                       returned |-> [ chunked |-> NotReturned, whole |-> NotReturned ] ]
    /\ UNCHANGED machineVars

\* _process_single_file with file_size > 1024 * 1024:
\* return self._extract_apis_from_file_chunked(owner, repo, file_path, branch)
chunked_returns ==
    /\ fn_call.name = "large_file"
    /\ fn_call.returned.chunked = NotReturned
    /\ fn_call' = [ fn_call EXCEPT !.returned.chunked =
                       << _extract_apis_from_file_chunked(fn_call.args) >> ]
    /\ UNCHANGED machineVars

\* self._extract_apis_from_file(content, file_path) on the whole content
whole_returns ==
    /\ fn_call.name = "large_file"
    /\ fn_call.returned.whole = NotReturned
    /\ fn_call' = [ fn_call EXCEPT !.returned.whole =
                       << _extract_apis_from_file(fn_call.args) >> ]
    /\ UNCHANGED machineVars

NextChunked == large_file_call \/ chunked_returns \/ whole_returns

SpecChunked == InitRequest /\ [][NextChunked]_vars

(***************************************************************************)
(* GitHubService._determine_risk_level                                     *)
(***************************************************************************)
\* issue_weights = {...}
issue_weights ==
    [ potential_n_plus_one_query |-> 3,
      no_caching |-> 2,
      no_validation |-> 1,
      no_error_handling |-> 2,
      async_without_await |-> 1 ]

\* a table that gives every known tag the weight 1
issue_weight_flat(issue) == IF issue \in DOMAIN issue_weights THEN 1 ELSE 0

\* issue_weights.get(issue, 0)
issue_weight(issue) == IF issue \in DOMAIN issue_weights THEN issue_weights[issue] ELSE 0

RECURSIVE risk_score_of(_, _, _)
\* risk_score = complexity; for issue in issues: risk_score += ...
risk_score_of(risk_score, issues, k) ==
    IF k > Len(issues) THEN risk_score
    ELSE risk_score_of(risk_score + issue_weight(issues[k]) * Scale, issues, k + 1)

\* the comparisons with > in the place of >=
risk_level_above(complexity, issues) ==
    IF risk_score_of(complexity, issues, 1) > 7 * Scale THEN "HIGH"
    ELSE IF risk_score_of(complexity, issues, 1) > 4 * Scale THEN "MEDIUM"
    ELSE "LOW"

\* _determine_risk_level(complexity, issues), complexity in millionths
_determine_risk_level(complexity, issues) ==
    IF risk_score_of(complexity, issues, 1) >= 7 * Scale THEN "HIGH"
    ELSE IF risk_score_of(complexity, issues, 1) >= 4 * Scale THEN "MEDIUM"
    ELSE "LOW"

\* the tags of _identify_potential_issues and one the table does not know
IssueTags == DOMAIN issue_weights \cup { "no_async" }

\* the longest list of issues of a call
MaxIssues == 2

\* complexity scores around the two thresholds
Complexities ==
    { 0, Scale \div 2, Scale, 2 * Scale, 3 * Scale, 4 * Scale - 1, 4 * Scale,
      5 * Scale, 6 * Scale, 7 * Scale - 1, 7 * Scale, 10 * Scale }

\* one call of _determine_risk_level and its return
risk_level_call ==
    /\ fn_call.name = "none"
    /\ \E complexity \in Complexities, issues \in SeqUpTo(IssueTags, MaxIssues) :
          fn_call' = [ name |-> "_determine_risk_level",
                       args |-> [ complexity |-> complexity, issues |-> issues ],
                       returned |-> _determine_risk_level(complexity, issues) ]
    /\ UNCHANGED machineVars

NextRisk == risk_level_call

SpecRisk == InitRequest /\ [][NextRisk]_vars

(***************************************************************************)
(* GitHubService._get_all_files and _is_api_file                           *)
(***************************************************************************)
\* the names of the directories _get_all_files does not list
skipped_directories ==
    { <<".","g","i","t">>, <<"n","o","d","e","_","m","o","d","u","l","e","s">>,
      <<"_","_","p","y","c","a","c","h","e","_","_">>,
      <<".","p","y","t","e","s","t","_","c","a","c","h","e">>, <<"v","e","n","v">>,
      <<"e","n","v">>, <<"b","i","n">>, <<"o","b","j">>,
      <<"p","a","c","k","a","g","e","s">> }

\* skip_patterns of _is_api_file, as written
skip_patterns ==
    { <<".","g","i","t","/">>, <<".","s","v","n","/">>, <<".","h","g","/">>,
      <<".","b","z","r","/">>, <<".","i","d","e","a","/">>,
      <<".","v","s","c","o","d","e","/">>, <<".","v","s","/">>,
      <<"n","o","d","e","_","m","o","d","u","l","e","s","/">>,
      <<"b","o","w","e","r","_","c","o","m","p","o","n","e","n","t","s","/">>,
      <<"v","e","n","d","o","r","/">>, <<"p","a","c","k","a","g","e","s","/">>,
      <<"_","_","p","y","c","a","c","h","e","_","_","/">>,
      <<".","p","y","t","e","s","t","_","c","a","c","h","e","/">>,
      <<".","m","y","p","y","_","c","a","c","h","e","/">>,
      <<".","c","o","v","e","r","a","g","e","/">>, <<"v","e","n","v","/">>,
      <<"e","n","v","/">>, <<".","v","e","n","v","/">>, <<".","e","n","v","/">>,
      <<"v","i","r","t","u","a","l","e","n","v","/">>, <<"c","o","n","d","a","/">>,
      <<"b","i","n","/">>, <<"o","b","j","/">>, <<"t","a","r","g","e","t","/">>,
      <<"b","u","i","l","d","/">>, <<"d","i","s","t","/">>, <<"o","u","t","/">>,
      <<"r","e","l","e","a","s","e","/">>, <<"t","e","s","t","/">>,
      <<"t","e","s","t","s","/">>, <<"s","p","e","c","/">>, <<"s","p","e","c","s","/">>,
      <<"_","_","t","e","s","t","s","_","_","/">>, <<"t","e","s","t","_">>,
      <<"d","o","c","s","/">>, <<"d","o","c","u","m","e","n","t","a","t","i","o","n","/">>,
      <<"d","o","c","/">>, <<"w","i","k","i","/">>,
      <<"e","x","a","m","p","l","e","s","/">>, <<"a","s","s","e","t","s","/">>,
      <<"s","t","a","t","i","c","/">>, <<"p","u","b","l","i","c","/">>,
      <<"r","e","s","o","u","r","c","e","s","/">>, <<"m","e","d","i","a","/">>,
      <<"i","m","a","g","e","s","/">>, <<"c","s","s","/">>, <<"s","c","s","s","/">>,
      <<"s","a","s","s","/">>, <<"l","e","s","s","/">>, <<"f","o","n","t","s","/">>,
      <<"i","c","o","n","s","/">>, <<"c","o","n","f","i","g","/">>,
      <<"c","o","n","f","/">>, <<"s","e","t","t","i","n","g","s","/">>,
      <<"s","e","c","r","e","t","s","/">>, <<".","c","o","n","f","i","g","/">>,
      <<".","e","n","v">>, <<".","e","n","v",".","l","o","c","a","l">>,
      <<".","e","n","v",".","p","r","o","d","u","c","t","i","o","n">>,
      <<".","e","n","v",".","d","e","v","e","l","o","p","m","e","n","t">>,
      <<"p","a","c","k","a","g","e","-","l","o","c","k",".","j","s","o","n">>,
      <<"y","a","r","n",".","l","o","c","k">>,
      <<"p","n","p","m","-","l","o","c","k",".","y","a","m","l">>,
      <<"c","o","m","p","o","s","e","r",".","l","o","c","k">>,
      <<"p","o","e","t","r","y",".","l","o","c","k">>,
      <<"P","i","p","f","i","l","e",".","l","o","c","k">>,
      <<"G","e","m","f","i","l","e",".","l","o","c","k">>,
      <<"C","a","r","g","o",".","l","o","c","k">>, <<"p","o","m",".","x","m","l">>,
      <<"b","u","i","l","d",".","g","r","a","d","l","e">>,
      <<"b","u","i","l","d",".","x","m","l">>, <<"M","a","k","e","f","i","l","e">>,
      <<"C","M","a","k","e","L","i","s","t","s",".","t","x","t">>,
      <<"r","e","q","u","i","r","e","m","e","n","t","s",".","t","x","t">>,
      <<"P","i","p","f","i","l","e">>, <<"s","e","t","u","p",".","p","y">>,
      <<"p","y","p","r","o","j","e","c","t",".","t","o","m","l">>,
      <<"p","a","c","k","a","g","e",".","j","s","o","n">>,
      <<"c","o","m","p","o","s","e","r",".","j","s","o","n">>,
      <<"G","e","m","f","i","l","e">>, <<"C","a","r","g","o",".","t","o","m","l">>,
      <<".","D","S","_","S","t","o","r","e">>, <<".","T","h","u","m","b","s",".","d","b">>,
      <<"T","h","u","m","b","s",".","d","b">>, <<".","d","i","r","e","c","t","o","r","y">>,
      <<"*",".","t","m","p">>, <<"*",".","t","e","m","p">>, <<"*",".","l","o","g">>,
      <<"*",".","c","a","c","h","e">>, <<"*",".","p","i","d">>, <<".","j","s","o","n">>,
      <<".","x","m","l">>, <<".","y","m","l">>, <<".","y","a","m","l">>, <<".","m","d">>,
      <<".","t","x","t">>, <<".","l","o","g">>, <<".","l","o","c","k">>,
      <<".","m","i","n",".","j","s">>, <<".","m","i","n",".","c","s","s">>,
      <<".","m","a","p">>, <<".","b","u","n","d","l","e">>, <<".","c","h","u","n","k">>,
      <<"m","i","g","r","a","t","i","o","n","s","/">>, <<"s","e","e","d","s","/">>,
      <<"f","i","x","t","u","r","e","s","/">>, <<"t","e","m","p","l","a","t","e","s","/">>,
      <<"l","a","y","o","u","t","s","/">>, <<"c","o","m","p","o","n","e","n","t","s","/">>,
      <<"w","i","d","g","e","t","s","/">>, <<"m","i","x","i","n","s","/">>,
      <<"d","a","t","a","/">>, <<"d","a","t","a","b","a","s","e","/">>, <<"d","b","/">>,
      <<"s","q","l","/">>, <<"*",".","d","b">>, <<"*",".","s","q","l","i","t","e">>,
      <<"*",".","s","q","l","i","t","e","3">>, <<"*",".","d","b","3">>,
      <<"b","a","c","k","u","p","/">>, <<"b","a","c","k","u","p","s","/">>,
      <<"t","m","p","/">>, <<"t","e","m","p","/">>, <<"c","a","c","h","e","/">>,
      <<"l","o","g","s","/">>, <<"*",".","b","a","k">>,
      <<"*",".","b","a","c","k","u","p">>, <<"*",".","o","l","d">>,
      <<"*",".","o","r","i","g">> }

\* non_api_indicators of _is_api_file
non_api_indicators ==
    { <<"t","e","s","t">>, <<"s","p","e","c">>, <<"m","o","c","k">>, <<"s","t","u","b">>,
      <<"f","i","x","t","u","r","e">>, <<"e","x","a","m","p","l","e">>,
      <<"d","e","m","o">>, <<"r","e","a","d","m","e">>,
      <<"c","h","a","n","g","e","l","o","g">>, <<"l","i","c","e","n","s","e">>,
      <<"c","o","n","t","r","i","b","u","t","i","n","g">>, <<"t","o","d","o">>,
      <<"c","o","n","f","i","g">>, <<"s","e","t","t","i","n","g">>, <<"e","n","v">>,
      <<"d","o","c","k","e","r">>, <<"d","o","c","k","e","r","f","i","l","e">>,
      <<"c","o","m","p","o","s","e">>, <<"g","i","t","i","g","n","o","r","e">>,
      <<"g","i","t","a","t","t","r","i","b","u","t","e","s">>,
      <<"e","d","i","t","o","r","c","o","n","f","i","g">>,
      <<"e","s","l","i","n","t","r","c">>, <<"p","r","e","t","t","i","e","r","r","c">>,
      <<"b","a","b","e","l","r","c">>, <<"w","e","b","p","a","c","k">>,
      <<"r","o","l","l","u","p">>, <<"v","i","t","e">>, <<"p","a","c","k","a","g","e">>,
      <<"m","a","n","i","f","e","s","t">>, <<"l","o","c","k">>, <<"y","a","r","n">>,
      <<"n","p","m">>, <<"p","i","p">>,
      <<"r","e","q","u","i","r","e","m","e","n","t","s">>, <<"s","e","t","u","p">>,
      <<"p","y","p","r","o","j","e","c","t">>, <<"c","a","r","g","o">>,
      <<"g","e","m","f","i","l","e">> }

\* api_indicators of _is_api_file, as written
api_indicators ==
    { <<"c","o","n","t","r","o","l","l","e","r">>, <<"r","o","u","t","e">>,
      <<"a","p","i">>, <<"e","n","d","p","o","i","n","t">>,
      <<"h","a","n","d","l","e","r">>, <<"s","e","r","v","i","c","e">>,
      <<"a","p","p",".","p","y">>, <<"m","a","i","n",".","p","y">>,
      <<"s","e","r","v","e","r",".","p","y">>, <<"s","e","r","v","i","c","e",".","p","y">>,
      <<"r","o","u","t","e","s",".","p","y">>, <<"a","p","i",".","p","y">>,
      <<"e","n","d","p","o","i","n","t","s",".","p","y">>,
      <<"h","a","n","d","l","e","r","s",".","p","y">>,
      <<"c","o","n","t","r","o","l","l","e","r","s",".","p","y">>,
      <<"v","i","e","w","s",".","p","y">>, <<"u","r","l","s",".","p","y">>,
      <<"v","i","e","w","s","e","t","s",".","p","y">>, <<"a","p","p",".","j","s">>,
      <<"s","e","r","v","e","r",".","j","s">>, <<"i","n","d","e","x",".","j","s">>,
      <<"r","o","u","t","e","s",".","j","s">>,
      <<"A","p","p","l","i","c","a","t","i","o","n",".","j","a","v","a">>,
      <<"C","o","n","t","r","o","l","l","e","r",".","j","a","v","a">>,
      <<"S","e","r","v","i","c","e",".","j","a","v","a">>,
      <<"P","r","o","g","r","a","m",".","c","s">>,
      <<"C","o","n","t","r","o","l","l","e","r",".","c","s">>,
      <<"S","t","a","r","t","u","p",".","c","s">>,
      <<"A","p","i","C","o","n","t","r","o","l","l","e","r",".","c","s">>,
      <<"C","o","n","t","r","o","l","l","e","r","s">>,
      <<"A","p","i","C","o","n","t","r","o","l","l","e","r","s">>,
      <<"W","e","b","A","p","i">>, <<"A","p","i">>, <<"a","p","p",".","r","b">>,
      <<"r","o","u","t","e","s",".","r","b">>,
      <<"a","p","p","l","i","c","a","t","i","o","n",".","r","b">>,
      <<"m","a","i","n",".","g","o">>, <<"s","e","r","v","e","r",".","g","o">>,
      <<"h","a","n","d","l","e","r","s",".","g","o">>, <<"m","a","i","n",".","r","s">>,
      <<"l","i","b",".","r","s">>, <<"h","a","n","d","l","e","r","s",".","r","s">>,
      <<"i","n","d","e","x",".","p","h","p">>, <<"r","o","u","t","e","s",".","p","h","p">>,
      <<"a","p","i",".","p","h","p">>, <<"r","e","s","t">>, <<"w","e","b">>,
      <<"h","t","t","p">>, <<"s","e","r","v","e","r">>, <<"a","p","p">>,
      <<"m","a","i","n">> }

\* api_extensions of _is_api_file
api_extensions ==
    { <<".","p","y">>, <<".","j","s">>, <<".","t","s">>, <<".","j","a","v","a">>,
      <<".","c","s">>, <<".","r","b">>, <<".","g","o">>, <<".","r","s">>,
      <<".","p","h","p">>, <<".","s","w","i","f","t">>, <<".","k","t">>,
      <<".","s","c","a","l","a">>, <<".","c","l","j">>, <<".","h","s">>,
      <<".","d","a","r","t">>, <<".","e","x">>, <<".","e","x","s">>, <<".","f","s">>,
      <<".","f","s","x">>, <<".","f","s","i">>, <<".","c","r">>, <<".","e","c","r">>,
      <<".","n","i","m">>, <<".","n","i","m","s">>, <<".","z","i","g">>, <<".","v">>,
      <<".","o","d","i","n">>, <<".","j","a","i">>, <<".","c","p","p">>, <<".","c">>,
      <<".","h">>, <<".","h","p","p">>, <<".","c","c">>, <<".","c","x","x">>, <<".","m">>,
      <<".","m","m">>, <<".","c","l","j","s">>, <<".","c","l","j","c">>,
      <<".","l","h","s">>, <<".","s","b","t">>, <<".","g","r","a","d","l","e">>,
      <<".","p","o","m">>, <<".","x","m","l">>, <<".","y","a","m","l">>,
      <<".","y","m","l">>, <<".","j","s","o","n">>, <<".","t","o","m","l">>,
      <<".","i","n","i">>, <<".","c","f","g">>, <<".","c","o","n","f">>,
      <<".","p","r","o","p","e","r","t","i","e","s">> }

\* config_files of _is_api_file
config_files ==
    { <<"r","o","u","t","e","s">>, <<"u","r","l","s">>,
      <<"e","n","d","p","o","i","n","t","s">>, <<"a","p","i">>,
      <<"s","w","a","g","g","e","r">>, <<"o","p","e","n","a","p","i">> }

\* any(pattern in file_lower for pattern in patterns)
any_in(patterns, file_lower) == \E pattern \in patterns : contains(pattern, file_lower)

\* _is_api_file(file_path)
_is_api_file(file_path) ==
    /\ ~any_in(skip_patterns, lower(file_path))
    /\ ~any_in(non_api_indicators, lower(file_path))
    /\ \/ any_in(api_indicators, lower(file_path))
       \/ /\ \E ext \in api_extensions : endswith(lower(file_path), ext)
          /\ any_in(config_files, lower(file_path))
       \/ \E ext \in api_extensions : endswith(lower(file_path), ext)

\* an item of a listing of the contents API
TreeFile(name, path) == [ type |-> "file", name |-> name, path |-> path, contents |-> <<>> ]

TreeDir(name, path, contents) ==
    [ type |-> "dir", name |-> name, path |-> path, contents |-> contents ]

RECURSIVE get_all_files_of(_)
\* _get_all_files on a listing every request of which succeeds
get_all_files_of(contents) ==
    IF contents = <<>> THEN <<>>
    ELSE (IF Head(contents).type = "file" THEN <<Head(contents)>>
          ELSE IF Head(contents).name \notin skipped_directories
               THEN get_all_files_of(Head(contents).contents)
               ELSE <<>>)
         \o get_all_files_of(Tail(contents))

RECURSIVE listed_directories(_)
\* the paths of the directories _get_all_files calls itself on
listed_directories(contents) ==
    IF contents = <<>> THEN {}
    ELSE (IF Head(contents).type = "dir" /\ Head(contents).name \notin skipped_directories
          THEN {Head(contents).path} \cup listed_directories(Head(contents).contents)
          ELSE {})
         \cup listed_directories(Tail(contents))

\* for file_info in files: if self._is_api_file(file_info['path']): ...
api_files_in(files_) ==
    LET selected == SelectSeq(files_, LAMBDA f : _is_api_file(f.path))
    IN  SubSeq(selected, 1, Min2(Len(selected), max_files_to_process))

\* the items a repository may have at its root
TreeItems ==
    << TreeFile(<<"a","p","p",".","p","y">>, <<"a","p","p",".","p","y">>),
       TreeFile(<<"a","p","i",".","s","h">>, <<"a","p","i",".","s","h">>),
       TreeFile(<<"u","s","e","r","s",".","r","b">>, <<"u","s","e","r","s",".","r","b">>),
       TreeFile(<<"p","a","c","k","a","g","e",".","j","s","o","n">>, <<"p","a","c","k","a","g","e",".","j","s","o","n">>),
       TreeDir(<<".","i","d","e","a">>, <<".","i","d","e","a">>,
               << TreeFile(<<"a","p","i",".","p","y">>, <<".","i","d","e","a","/","a","p","i",".","p","y">>) >>),
       TreeDir(<<"n","o","d","e","_","m","o","d","u","l","e","s">>, <<"n","o","d","e","_","m","o","d","u","l","e","s">>,
               << TreeFile(<<"a","p","p",".","j","s">>, <<"n","o","d","e","_","m","o","d","u","l","e","s","/","a","p","p",".","j","s">>) >>),
       TreeDir(<<"b","u","i","l","d">>, <<"b","u","i","l","d">>,
               << TreeFile(<<"a","p","p",".","p","y">>, <<"b","u","i","l","d","/","a","p","p",".","p","y">>) >>),
       TreeDir(<<"s","r","c">>, <<"s","r","c">>,
               << TreeFile(<<"m","a","i","n",".","p","y">>, <<"s","r","c","/","m","a","i","n",".","p","y">>) >>) >>

RECURSIVE items_in(_, _)
\* the items of TreeItems whose index is in chosen, in order
items_in(chosen, k) ==
    IF k > Len(TreeItems) THEN <<>>
    ELSE (IF k \in chosen THEN <<TreeItems[k]>> ELSE <<>>) \o items_in(chosen, k + 1)

\* discover_apis_in_repository up to the selection of api_files
listing_call ==
    /\ fn_call.name = "none"
    /\ \E chosen \in SUBSET DOMAIN TreeItems :
          fn_call' = [ name |-> "_get_all_files", args |-> items_in(chosen, 1),
                       returned |->
                         [ files |-> get_all_files_of(items_in(chosen, 1)),
                           listed |-> listed_directories(items_in(chosen, 1)),
                           api_files |-> api_files_in(get_all_files_of(items_in(chosen, 1))) ] ]
    /\ UNCHANGED machineVars

NextListing == listing_call

SpecListing == InitRequest /\ [][NextListing]_vars

(***************************************************************************)
(* GitHubService.compare_apis_with_issues                                  *)
(***************************************************************************)
upper_char(c) ==
    IF \E k \in 1..26 : LowerCase[k] = c
    THEN UpperCase[CHOOSE k \in 1..26 : LowerCase[k] = c]
    ELSE c

\* str.upper()
upper(s) == [k \in 1..Len(s) |-> upper_char(s[k])]

\* GET|POST|PUT|DELETE|PATCH|HEAD|OPTIONS
MethodsUpper == { upper(m) : m \in {s_get, s_post, s_put, s_delete, s_patch, s_head, s_options} }

\* the position of the first "}" of s at or after k, 0 when there is none
closing_brace(s, k) ==
    IF \E n \in k..Len(s) : s[n] = "}"
    THEN CHOOSE n \in k..Len(s) : s[n] = "}" /\ \A m \in k..(n - 1) : s[m] # "}"
    ELSE 0

RECURSIVE re_sub_braces(_)
\* re.sub(r'\{[^}]+\}', '{id}', s)
re_sub_braces(s) ==
    IF s = <<>> THEN <<>>
    ELSE IF Head(s) = "{" /\ closing_brace(s, 2) > 2
         THEN <<"{","i","d","}">> \o re_sub_braces(SubSeq(s, closing_brace(s, 2) + 1, Len(s)))
         ELSE <<Head(s)>> \o re_sub_braces(Tail(s))

\* _normalize_endpoint(endpoint)
_normalize_endpoint(endpoint) ==
    IF endpoint = <<>> THEN <<>>
    ELSE re_sub_braces(rstrip(re_sub_method_prefix(upper(endpoint), MethodsUpper, FALSE),
                              {"/"}))

\* _calculate_endpoint_similarity(endpoint1, endpoint2), in millionths
_calculate_endpoint_similarity(endpoint1, endpoint2) ==
    IF endpoint1 = endpoint2 THEN Scale
    ELSE (Cardinality(ToSet(split(endpoint1, "/")) \cap ToSet(split(endpoint2, "/"))) * Scale)
         \div Cardinality(ToSet(split(endpoint1, "/")) \cup ToSet(split(endpoint2, "/")))

RECURSIVE discovered_api_map_of(_, _, _)
\* discovered_api_map[normalized_endpoint] = api: the keys in insertion
\* order, each with the index of the last API that has it
discovered_api_map_of(discovered_apis_, k, map) ==
    IF k > Len(discovered_apis_) THEN map
    ELSE IF \E n \in DOMAIN map : map[n].key = _normalize_endpoint(discovered_apis_[k].endpoint)
         THEN discovered_api_map_of(discovered_apis_, k + 1,
                  [ n \in DOMAIN map |->
                      IF map[n].key = _normalize_endpoint(discovered_apis_[k].endpoint)
                      THEN [ key |-> map[n].key, api |-> k ] ELSE map[n] ])
         ELSE discovered_api_map_of(discovered_apis_, k + 1,
                  Append(map, [ key |-> _normalize_endpoint(discovered_apis_[k].endpoint),
                                api |-> k ]))

RECURSIVE fuzzy_best(_, _, _, _)
\* for norm_endpoint, discovered_api in discovered_api_map.items(): ...
\* best is <<best_match, best_confidence>>, best_match 0 for None
fuzzy_best(map, normalized_perf_endpoint, n, best_) ==
    IF n > Len(map) THEN best_
    ELSE fuzzy_best(map, normalized_perf_endpoint, n + 1,
             IF /\ _calculate_endpoint_similarity(normalized_perf_endpoint, map[n].key) > best_[2]
                /\ _calculate_endpoint_similarity(normalized_perf_endpoint, map[n].key)
                       > Mul(Scale, 7, 10)
             THEN << map[n].api, _calculate_endpoint_similarity(normalized_perf_endpoint,
                                                                map[n].key) >>
             ELSE best_)

\* the exact match when the normalized endpoint is a key, else the fuzzy one
best_of_map(map, normalized_perf_endpoint) ==
    IF \E n \in DOMAIN map : map[n].key = normalized_perf_endpoint
    THEN << map[CHOOSE n \in DOMAIN map : map[n].key = normalized_perf_endpoint].api, Scale >>
    ELSE fuzzy_best(map, normalized_perf_endpoint, 1, <<0, 0>>)

\* the matches list: one entry for each performance API with a best_match
matches_of(map, worst_apis) ==
    LET found == SelectSeq([ k \in DOMAIN worst_apis |->
                               [ performance_api |-> k,
                                 best |-> best_of_map(map,
                                              _normalize_endpoint(worst_apis[k].endpoint)) ] ],
                           LAMBDA mt : mt.best[1] # 0)
    IN  [ k \in DOMAIN found |->
            [ performance_api |-> found[k].performance_api,
              source_api |-> found[k].best[1],
              match_confidence |-> found[k].best[2] ] ]

\* for api in discovered_apis: if not any(self._normalize_endpoint(
\*     perf['endpoint']) == normalized_endpoint for perf in worst_apis): ...
unmatched_source_apis_of(discovered_apis_, worst_apis) ==
    SelectSeq([ k \in DOMAIN discovered_apis_ |-> k ],
              LAMBDA k : ~\E w \in DOMAIN worst_apis :
                             _normalize_endpoint(worst_apis[w].endpoint)
                                 = _normalize_endpoint(discovered_apis_[k].endpoint))

\* compare_apis_with_issues(discovered_apis, worst_apis); the APIs of the
\* result are indices into the two lists
compare_apis_with_issues_of(discovered_apis_, worst_apis) ==
    [ matches |-> matches_of(discovered_api_map_of(discovered_apis_, 1, <<>>), worst_apis),
      unmatched_performance_apis |->
          SelectSeq([ k \in DOMAIN worst_apis |-> k ],
                    LAMBDA k : best_of_map(discovered_api_map_of(discovered_apis_, 1, <<>>),
                                   _normalize_endpoint(worst_apis[k].endpoint))[1] = 0),
      unmatched_source_apis |-> unmatched_source_apis_of(discovered_apis_, worst_apis) ]

\* discovered endpoints: two methods of one path, and a longer path
CompareDiscovered ==
    { DiscoveredAPI(e_get_u, <<"a",".","p","y">>, 2),
      DiscoveredAPI(e_post_u, <<"a",".","p","y">>, 8),
      DiscoveredAPI(<<"G","E","T"," ","/","a","/","b","/","c","/","d","/","e">>, <<"b",".","p","y">>, 3) }

\* worst APIs: the path of the first two, a path that differs from the third
\* in its last segment, and a path like none
CompareWorst ==
    { [endpoint |-> <<"/","u">>], [endpoint |-> <<"/","a","/","b","/","c","/","d","/","f">>], [endpoint |-> <<"/","x">>] }

\* lists of discovered APIs without a repeated record, as discovery returns them
DistinctDiscovered ==
    { ds \in SeqUpTo(CompareDiscovered, 2) :
        \A a, b \in DOMAIN ds : a # b => ds[a] # ds[b] }

\* one call of compare_apis_with_issues
compare_apis_with_issues ==
    /\ fn_call.name = "none"
    /\ \E discovered_apis_ \in DistinctDiscovered, worst_apis \in SeqUpTo(CompareWorst, 2) :
          fn_call' = [ name |-> "compare_apis_with_issues",
                       args |-> [ discovered_apis |-> discovered_apis_,
                                  worst_apis |-> worst_apis ],
                       returned |-> compare_apis_with_issues_of(discovered_apis_, worst_apis) ]
    /\ UNCHANGED machineVars

NextCompare == compare_apis_with_issues

SpecCompare == InitRequest /\ [][NextCompare]_vars

(***************************************************************************)
(* GitHubService._make_github_request                                      *)
(***************************************************************************)
\* self.max_retries = 3
max_retries == 3

\* self.rate_limit_delay = 1.0
rate_limit_delay == Scale

\* values of random.uniform(0, 1): 0, 0.5 and the largest below 1
Jitters == { 0, Scale \div 2, Scale - 1 }

\* what requests.get gives: status 200, status 403 with "rate limit
\* exceeded" in the text, status 404, another status that raise_for_status
\* raises for, a status it does not raise for (204, 304, ...), or a
\* RequestException of the transport
Responses == { "ok", "rate_limited", "not_found", "http_error", "other_status",
               "transport_error" }

\* delay that grows by rate_limit_delay for each attempt
backoff_delay_linear(attempt_, jitter) == rate_limit_delay * attempt_ + jitter

\* delay = self.rate_limit_delay * (2 ** attempt) + random.uniform(0, 1)
backoff_delay(attempt_, jitter) == rate_limit_delay * (2 ^ attempt_) + jitter

\* if attempt < self.max_retries - 1
may_retry(attempt_) == attempt_ < max_retries - 1

\* the call ends with an exception
request_raises(detail) ==
    /\ rq_pc' = "raised"
    /\ rq_result' = [ kind |-> "raised", detail |-> detail ]
    /\ UNCHANGED attempt

\* the next iteration of  for attempt in range(self.max_retries), or the
\* raise after the loop
next_attempt ==
    IF attempt + 1 < max_retries
    THEN /\ attempt' = attempt + 1
         /\ rq_pc' = "sleep"
         /\ UNCHANGED rq_result
    ELSE request_raises("Max retries exceeded")

request_call ==
    /\ rq_pc = "idle"
    /\ rq_pc' = "sleep"
    /\ attempt' = 0
    /\ rq_log' = <<>>
    /\ UNCHANGED <<delay, rq_result>>
    /\ UNCHANGED <<matcherVars, discoveryVars, serviceVars>>

\* time.sleep(delay) of one attempt
request_sleep ==
    /\ rq_pc = "sleep"
    /\ \E jitter \in Jitters :
          delay' = IF attempt > 0 THEN backoff_delay(attempt, jitter) ELSE rate_limit_delay
    /\ rq_pc' = "get"
    /\ UNCHANGED <<attempt, rq_log, rq_result>>
    /\ UNCHANGED <<matcherVars, discoveryVars, serviceVars>>

\* requests.get of one attempt and what the loop does with its outcome
request_get ==
    /\ rq_pc = "get"
    /\ \E response \in Responses :
          /\ rq_log' = Append(rq_log, [attempt |-> attempt, delay |-> delay,
                                       response |-> response])
          /\ CASE response = "ok" ->
                     /\ rq_pc' = "returned"
                     /\ rq_result' = [ kind |-> "response", detail |-> "200" ]
                     /\ UNCHANGED attempt
               [] response = "rate_limited" ->
                     IF may_retry(attempt) THEN next_attempt
                     ELSE request_raises("GitHub API rate limit exceeded")
               [] response = "not_found" -> request_raises("Repository not found")
               [] response \in {"http_error", "transport_error"} ->
                     IF may_retry(attempt) THEN next_attempt
                     ELSE request_raises("RequestException")
               [] response = "other_status" -> next_attempt
    /\ UNCHANGED delay
    /\ UNCHANGED <<matcherVars, discoveryVars, serviceVars>>

NextRequest == request_call \/ request_sleep \/ request_get

SpecRequest == InitRequest /\ [][NextRequest]_vars

(***************************************************************************)
(* The reads of the primary pass, each through _make_github_request        *)
(***************************************************************************)
\* a.py and b.py decode to text, c.bin is an API file by its path whose
\* bytes are not UTF-8
RepoBinary ==
    << RepoFile(<<"a",".","p","y">>, TRUE, TRUE,
                << Match(e_get_u, 2), Match(e_post_u, 8) >>),
       RepoFile(<<"b",".","p","y">>, TRUE, TRUE,
                << Match(e_get_u, 3), Match(e_get_o, 6) >>),
       Undecodable(RepoFile(<<"a","p","i","/","c",".","b","i","n">>, TRUE, FALSE,
                << Match(e_get_o, 1) >>)) >>

InitScan == InitGitHub /\ snapshot = RepoBinary

\* get_file_content whatever the bytes are: content when the request returned
read_outcome_undecoded(file, rq_result_) ==
    IF rq_result_.kind = "raised"
    THEN (IF rq_result_.detail = "Repository not found" THEN "not_found" ELSE "failed")
    ELSE "content"

\* get_file_content of one file given how _make_github_request ended: the
\* content, or None because of a 404, of another failed request or of the
\* decoding
read_outcome(file, rq_result_) ==
    IF rq_result_.kind = "raised"
    THEN (IF rq_result_.detail = "Repository not found" THEN "not_found" ELSE "failed")
    ELSE IF file.decodable THEN "content" ELSE "undecodable"

\* if content: return self._extract_apis_from_file(...)  else: return []
apis_of_read(file, outcome) ==
    IF outcome = "content" THEN _extract_apis_from_file(file) ELSE <<>>

\* discover_apis_in_repository whose listing succeeded
scan_call ==
    /\ dc_pc = "idle"
    /\ rq_pc = "idle"
    /\ enter_discovery
    /\ failing' = {}
    /\ UNCHANGED <<snapshot, earlier>>
    /\ UNCHANGED <<matcherVars, requestVars, serviceVars>>

\* a worker calls get_file_content, which calls _make_github_request
read_request_call ==
    /\ dc_pc = "pool"
    /\ pending # {}
    /\ request_call

\* the request of a worker has ended: get_file_content and
\* _process_single_file return and the future completes; a request that
\* failed fails again when the aggressive scan reads the file
worker_reads ==
    /\ dc_pc = "pool"
    /\ rq_pc \in {"returned", "raised"}
    /\ \E k \in pending :
          /\ pending' = pending \ {k}
          /\ reads' = Append(reads, [file |-> k,
                                      outcome |-> read_outcome(api_files[k], rq_result)])
          /\ completed' = Append(completed,
                 [file |-> k,
                  apis |-> apis_of_read(api_files[k],
                                        read_outcome(api_files[k], rq_result))])
          /\ failing' = IF rq_result.kind = "raised"
                        THEN failing \cup {api_files[k].path}
                        ELSE failing
    /\ rq_pc' = "idle"
    /\ attempt' = 0
    /\ delay' = 0
    /\ rq_log' = <<>>
    /\ rq_result' = NoResponse
    /\ UNCHANGED <<snapshot, dc_pc, files, api_files, discovered_apis,
                   aggressive_apis, aggressive_ran, dc_result, earlier>>
    /\ UNCHANGED <<matcherVars, serviceVars>>

NextScan ==
    scan_call \/ read_request_call \/ request_sleep \/ request_get \/ worker_reads
        \/ collect_completed \/ discover_return

SpecScan == InitScan /\ [][NextScan]_vars

\* a sleep ends and requests.get returns or raises within its timeout
SpecRequestFair == SpecRequest /\ WF_vars(NextRequest)

(***************************************************************************)
(* Properties of match_apis (specification Spec)                           *)
(***************************************************************************)
\* the call returned a MatchingResult
Returned == result.kind = "MatchingResult"

\* the positions of the matched entries built from profile i
entries_of(i) ==
    {a \in DOMAIN result.matched_apis : result.matched_apis[a].perf_index = i}

\* what _find_best_match returns for profile i of the call
best_of(i) == _find_best_match(score_cache[copy], performance_apis[i], source_apis)

\* C1: for all input lists, match_apis at the default threshold 0.3 returns a
\* MatchingResult and does not raise, in both copies of APIMatcher.
C1_DefaultThresholdReturns ==
    min_confidence_threshold = DefaultThreshold
        => /\ pc # "raised"
           /\ pc = "returned" => Returned

\* C2: in the result, each input profile is the performance_metrics of at
\* most one matched entry, and that entry refers to exactly one discovered
\* endpoint of the input.
C2_AtMostOneEndpointPerProfile ==
    Returned =>
        /\ \A i \in 1..Len(performance_apis) : Cardinality(entries_of(i)) <= 1
        /\ \A a \in DOMAIN result.matched_apis :
              LET m == result.matched_apis[a]
              IN  /\ m.perf_index \in 1..Len(performance_apis)
                  /\ m.performance_metrics = performance_apis[m.perf_index]
                  /\ m.source_index \in 1..Len(source_apis)
                  /\ m.api_endpoint = source_apis[m.source_index].endpoint
                  /\ m.file_path = source_apis[m.source_index].file_path

C2_TwoProfilesMatched == Returned /\ Len(result.matched_apis) = 2

C4_UnmatchedSourceIsTheUnselected ==
    Returned =>
        result.unmatched_source_apis =
            SelectSeq([k \in 1..Len(source_apis) |-> k],
                      LAMBDA k : \A a \in DOMAIN result.matched_apis :
                                     result.matched_apis[a].source_index # k)

\* C5: when two or more profiles have the same discovered endpoint d as their
\* best candidate with confidence >= threshold, each of them is accepted with
\* d, and d is not in unmatched_source_apis.
C5_NoExclusivityOnDiscovered ==
    Returned =>
        \A i, i2 \in 1..Len(performance_apis) :
            ( /\ i # i2
              /\ best_of(i)[1] # 0
              /\ best_of(i)[1] = best_of(i2)[1]
              /\ best_of(i)[2] >= min_confidence_threshold
              /\ best_of(i2)[2] >= min_confidence_threshold )
            => /\ \E a \in entries_of(i) :
                     /\ result.matched_apis[a].source_index = best_of(i)[1]
                     /\ result.matched_apis[a].match_confidence = best_of(i)[2]
               /\ \E a \in entries_of(i2) :
                     /\ result.matched_apis[a].source_index = best_of(i2)[1]
                     /\ result.matched_apis[a].match_confidence = best_of(i2)[2]
               /\ best_of(i)[1] \notin ToSet(result.unmatched_source_apis)

C5_TwoProfilesShareAnEndpoint ==
    /\ Returned
    /\ \E a, b \in DOMAIN result.matched_apis :
          /\ a # b
          /\ result.matched_apis[a].source_index = result.matched_apis[b].source_index

C7_InvalidThresholdRejected ==
    (min_confidence_threshold < 0 \/ min_confidence_threshold > Scale)
        => /\ pc \in {"idle", "raised"}
           /\ pc = "raised" => result.kind = "InvalidThreshold"

(***************************************************************************)
(* Properties of the scores (specification SpecScore)                      *)
(***************************************************************************)
\* the pair scored by the last iteration of _find_best_match
Scored == fb_pc # "idle" /\ j > 1

UnitInterval == 0..Scale

\* the normalised form the exact scorer compares
normalized_of(api) ==
    _normalize_endpoint_for_exact_match(strip(lower(api.endpoint), WhiteSpace))

\* the tokens of an endpoint: its maximal runs of letters and digits, lowercased
tokens_of(endpoint) ==
    split([k \in 1..Len(endpoint) |->
              IF endpoint[k] \in Letters \cup Digits THEN lower_char(endpoint[k]) ELSE "_"],
          "_")

is_version_segment(w) ==
    Len(w) >= 2 /\ w[1] = "v" /\ \A k \in 2..Len(w) : w[k] \in Digits

\* a token longer than 2 that is neither an HTTP verb nor a version segment
has_meaningful_token(endpoint) ==
    \E k \in DOMAIN tokens_of(endpoint) :
        LET w == tokens_of(endpoint)[k]
        IN  Len(w) > 2 /\ w \notin MethodsWithHeadOptions /\ ~is_version_segment(w)

\* C8: for every pair, the combined confidence computed by _find_best_match,
\* the confidence it returns (the one a match reports) and each component
\* score lie in [0,1].
C8_ConfidencesInUnitInterval ==
    /\ best[2] \in UnitInterval
    /\ Scored => /\ scores.total \in UnitInterval
                 /\ scores.exact \in UnitInterval
                 /\ scores.fuzzy \in UnitInterval
                 /\ scores.phrase \in UnitInterval

C8_FuzzyAtTheUpperBound ==
    /\ Scored
    /\ copy = "app"
    /\ perf_api = p_users_user
    /\ candidates[j - 1] = d_user_users
    /\ scores.fuzzy = Scale

\* C9: when the performance endpoint and the discovered endpoint normalize to
\* the same string, the pair's combined confidence is 1.0 and the discovered
\* endpoint is the one selected, unless an earlier candidate reached 1.0.
C9_SameNormalizedFormScoresOne ==
    ( /\ Scored
      /\ copy = "app"
      /\ normalized_of(perf_api) = normalized_of(candidates[j - 1]) )
    => /\ scores.total = Scale
       /\ best[1] = j - 1 \/ best[2] = Scale

\* C10: the exact component is 0 for every pair whose discovered endpoint
\* normalizes to a bare HTTP verb (get, post, put, delete, patch, head,
\* options), to "/" or to the empty string, and whose performance endpoint
\* has at least one meaningful token.
C10_GenericSourceScoresZeroExact ==
    ( /\ Scored
      /\ copy = "app"
      /\ normalized_of(candidates[j - 1]) \in MethodsWithHeadOptions \cup {s_slash, <<>>}
      /\ has_meaningful_token(perf_api.endpoint) )
    => scores.exact = 0

\* the combined confidence of candidate k of the call of _find_best_match
total_of(k) == scores_of(score_cache[copy], perf_api, candidates[k]).total

\* C11: _find_best_match returns the discovered endpoint whose combined
\* confidence is maximal over the whole list, with that confidence, and
\* among the candidates at the maximum the earliest one.
C11_ReturnsEarliestMaximum ==
    (fb_pc = "returned" /\ candidates # <<>>)
    => /\ best[1] \in 1..Len(candidates)
       /\ best[2] = total_of(best[1])
       /\ \A k \in 1..Len(candidates) : total_of(k) <= best[2]
       /\ \A k \in 1..(best[1] - 1) : total_of(k) < best[2]

\* a generic endpoint: a bare HTTP verb, "/", or a verb followed by "/"
is_generic_endpoint(endpoint) ==
    /\ \A k \in DOMAIN endpoint : endpoint[k] \in Letters \cup WhiteSpace \cup {"/"}
    /\ \A k \in DOMAIN tokens_of(endpoint) :
           tokens_of(endpoint)[k] \in MethodsWithHeadOptions \cup {<<>>}
    /\ Cardinality({k \in DOMAIN tokens_of(endpoint) : tokens_of(endpoint)[k] # <<>>}) <= 1

\* C14: when the discovered endpoint is generic and the performance endpoint
\* has a meaningful token, the combined confidence of the app copy is at most
\* 0.2, below the default threshold 0.3.
C14_GenericSourceAtMostOneFifth ==
    (/\ Scored
     /\ copy = "app"
     /\ is_generic_endpoint(candidates[j - 1].endpoint)
     /\ has_meaningful_token(perf_api.endpoint))
    => scores.total <= Mul(Scale, 2, 10)

\* x clamped to [0,1]
clamp_unit(x) == Max2(0, Min2(x, Scale))

\* C15: for every pair the combined confidence is the clamp to [0,1] of the
\* copy's one weighted sum of the component scores: 0.60, 0.30, 0.10 on
\* exact, fuzzy, phrase in the app copy, and 0.1, 0.1, 0.3, 0.1, 0.4 on
\* exact, fuzzy, semantic, framework, phrase in the services copy.
C15_OneWeightedSumForEveryPair ==
    Scored =>
        scores.total =
            IF copy = "app"
            THEN clamp_unit(weighted_combination(scores.exact, scores.fuzzy, scores.phrase))
            ELSE clamp_unit(weighted_combination_services(scores.exact, scores.fuzzy,
                                scores.semantic, scores.framework, scores.phrase))

\* the same, for the services copy alone
C15_ServicesOneWeightedSum ==
    (Scored /\ copy = "services") =>
        scores.total = clamp_unit(weighted_combination_services(scores.exact, scores.fuzzy,
                                      scores.semantic, scores.framework, scores.phrase))

(***************************************************************************)
(* Properties of repeated calls (specification SpecRepeat)                 *)
(***************************************************************************)
\* the calls on the two lists that have ended, the current one last
ended_calls ==
    IF pc \in {"returned", "raised"}
    THEN Append(previous, [threshold |-> min_confidence_threshold, result |-> result])
    ELSE previous

InUnitRange(t) == 0 <= t /\ t <= Scale

\* the number of accepted matches a call returned; a call that raised
\* returned none
accepted_count(call) == Len(call.result.matched_apis)

\* C12: for the same two lists and thresholds t1 <= t2 in [0,1], match_apis
\* of the app copy returns with t2 no more accepted matches than with t1.
C12_RaisingThresholdNeverAddsMatches ==
    copy = "app" =>
        \A a, b \in DOMAIN ended_calls :
            (/\ InUnitRange(ended_calls[a].threshold)
             /\ InUnitRange(ended_calls[b].threshold)
             /\ ended_calls[a].threshold <= ended_calls[b].threshold)
            => accepted_count(ended_calls[b]) <= accepted_count(ended_calls[a])

\* the same, for the pairs of calls that both returned
C12_MonotoneWhenBothReturn ==
    \A a, b \in DOMAIN ended_calls :
        (/\ ended_calls[a].threshold <= ended_calls[b].threshold
         /\ ended_calls[a].result.kind = "MatchingResult"
         /\ ended_calls[b].result.kind = "MatchingResult")
        => Len(ended_calls[b].result.matched_apis)
              <= Len(ended_calls[a].result.matched_apis)

\* two ended calls with the same threshold have the same outcome
SameThresholdSameResult ==
    \A a, b \in DOMAIN ended_calls :
        ended_calls[a].threshold = ended_calls[b].threshold
        => ended_calls[a].result = ended_calls[b].result

\* a step of a running call leaves the two argument lists as they were
ArgumentsKept ==
    pc = "loop" => /\ performance_apis' = performance_apis
                   /\ source_apis' = source_apis

\* C13: match_apis leaves both argument lists unchanged, and two calls with
\* the same lists and the same threshold end with the same confidences,
\* matches and unmatched lists (or the same exception), whatever call was
\* made in between.
C13_SameInputsSameResult == [] SameThresholdSameResult /\ [][ArgumentsKept]_vars

\* the first and the third call used the same threshold, the call between
\* them another one, and the third returned an accepted match
C13_SameCallAfterAnother ==
    /\ Len(previous) = 2
    /\ pc = "returned"
    /\ previous[1].threshold = min_confidence_threshold
    /\ previous[2].threshold # min_confidence_threshold
    /\ previous[2].result # result
    /\ Len(result.matched_apis) >= 1

(***************************************************************************)
(* Properties of discovery (specification SpecDiscovery)                   *)
(***************************************************************************)
\* the run returned a list
Discovery_Returned == dc_pc = "returned" /\ dc_result.kind = "list"

\* the records extraction produced in the run, in processing order
extracted_records == IF aggressive_ran THEN aggressive_apis ELSE discovered_apis

same_key(a, b) == a.endpoint = b.endpoint /\ a.file_path = b.file_path

\* the first record of seq with the key of api
first_with_key(seq, api) ==
    seq[CHOOSE k \in DOMAIN seq :
            same_key(seq[k], api) /\ \A m \in 1..(k - 1) : ~same_key(seq[m], api)]

\* list holds, for every key of the records of seq, exactly one record, the
\* first of seq with that key, and nothing else
one_record_per_key(list, seq) ==
    /\ \A k \in DOMAIN seq :
          /\ Cardinality({a \in DOMAIN list : same_key(list[a], seq[k])}) = 1
          /\ \E a \in DOMAIN list : list[a] = first_with_key(seq, seq[k])
    /\ \A a \in DOMAIN list : \E k \in DOMAIN seq : list[a] = seq[k]

\* C16: the returned list holds exactly one record for each distinct
\* (endpoint, file_path) of the records extraction produced, the first in
\* processing order, in the primary pass and in the aggressive pass alike.
C16_OneRecordPerEndpointAndFile ==
    Discovery_Returned => one_record_per_key(dc_result.apis, extracted_records)

\* the same, for the runs that did not call the aggressive scan
C16_PrimaryPassOneRecordPerKey ==
    (Discovery_Returned /\ ~aggressive_ran)
    => one_record_per_key(dc_result.apis, extracted_records)

\* the (endpoint, file_path) keys of a list of records
keys_of(list) == {<<list[a].endpoint, list[a].file_path>> : a \in DOMAIN list}

\* C17: a run of discover_apis_in_repository returns the same set of
\* (endpoint, file_path) keys as every earlier run on the same repository
\* and branch with the same files.
C17_RunsReturnTheSameKeys ==
    Discovery_Returned =>
        \A r \in DOMAIN earlier : keys_of(earlier[r].result.apis) = keys_of(dc_result.apis)

\* the same, for the runs in which the same requests failed
C17_SameKeysWhenSameRequestsFail ==
    Discovery_Returned =>
        \A r \in DOMAIN earlier :
            earlier[r].failing = failing
            => keys_of(earlier[r].result.apis) = keys_of(dc_result.apis)

RECURSIVE collect_in_submission_order(_, _, _)
\* what discovered_apis holds after the pool when the tasks complete in the
\* order they were submitted
collect_in_submission_order(api_files_, k, failing_) ==
    IF k > Len(api_files_) THEN <<>>
    ELSE _process_single_file(api_files_[k], failing_)
         \o collect_in_submission_order(api_files_, k + 1, failing_)

\* the list of the run whose tasks complete in submission order
result_in_submission_order(snapshot_, failing_) ==
    LET collected == collect_in_submission_order(
                         api_files_of(_get_all_files(snapshot_, failing_)), 1, failing_)
    IN  final_deduplication(
            IF collected = <<>>
            THEN aggressive_deduplication(
                     aggressive_collect(_get_all_files(snapshot_, failing_), 1, failing_), 1, {})
            ELSE collected,
            1, {})

\* whatever the completion order was, the returned records are those of the
\* run in submission order, one per key
SameRecordsInEveryOrder ==
    Discovery_Returned =>
        /\ ToSet(dc_result.apis) = ToSet(result_in_submission_order(snapshot, failing))
        /\ \A a, b \in DOMAIN dc_result.apis :
               same_key(dc_result.apis[a], dc_result.apis[b]) => a = b

\* a step in which a future completes leaves discovered_apis as it was
WorkersLeaveTheResultList ==
    Len(completed') > Len(completed) => discovered_apis' = discovered_apis

\* C18: for every completion order of the tasks of the pool the run returns
\* the same (endpoint, file_path) keys and for each key the same record, and
\* no worker writes to discovered_apis: only the coordinating thread does.
C18_CompletionOrderDoesNotMatter ==
    [] SameRecordsInEveryOrder /\ [][WorkersLeaveTheResultList]_vars

\* a run returned the records of two files whose tasks completed against the
\* submission order
C18_ReturnedAfterReversedCompletion ==
    /\ Discovery_Returned
    /\ ~aggressive_ran
    /\ Cardinality({dc_result.apis[a].file_path : a \in DOMAIN dc_result.apis}) = 2
    /\ dc_result.apis # result_in_submission_order(snapshot, failing)

\* the paths requested in the run: the root listing, the API files the
\* pool read and the files the aggressive scan read
requested_paths ==
    {root_path}
    \cup {api_files[k].path : k \in DOMAIN api_files}
    \cup (IF aggressive_ran
          THEN {files[k].path : k \in {m \in DOMAIN files : files[m].has_scanned_extension}}
          ELSE {})

\* a request of the run failed until its retries were exhausted
retries_exhausted == failing \cap requested_paths # {}

\* C20: when a listing or a read of the run fails until the retries are
\* exhausted, discover_apis_in_repository ends with the failure and does
\* not return a list.
C20_ExhaustedRetriesReachTheCaller ==
    (dc_pc = "returned" /\ retries_exhausted) => dc_result.kind = "raised"

(***************************************************************************)
(* Properties of _make_github_request (specification SpecRequestFair)      *)
(***************************************************************************)
\* the outcomes the loop retries: the rate-limit 403 and a RequestException
TransientFailures == {"rate_limited", "http_error", "transport_error"}

Request_Ended == rq_pc \in {"returned", "raised"}

\* at most max_retries attempts, numbered from 0
AtMostMaxRetriesAttempts ==
    /\ Len(rq_log) <= max_retries
    /\ \A k \in DOMAIN rq_log : rq_log[k].attempt = k - 1

\* a transient failure before the final attempt is followed by a new
\* attempt, made after rate_limit_delay * 2^attempt plus a jitter in [0,1)
RetriesAfterBackoff ==
    /\ \A k \in DOMAIN rq_log :
          (k < max_retries /\ rq_log[k].response \in TransientFailures /\ k = Len(rq_log))
          => rq_pc \in {"sleep", "get"}
    /\ \A k \in DOMAIN rq_log :
          k > 1 => /\ rq_log[k].delay >= rate_limit_delay * (2 ^ rq_log[k].attempt)
                   /\ rq_log[k].delay < rate_limit_delay * (2 ^ rq_log[k].attempt) + Scale

\* a failure on the final attempt raises
FinalFailureRaises ==
    (Len(rq_log) = max_retries /\ rq_log[max_retries].response # "ok")
    => rq_pc = "raised"

\* a 200 response is the last attempt and is returned
NoAttemptAfterSuccess ==
    \A k \in DOMAIN rq_log :
        rq_log[k].response = "ok" => (k = Len(rq_log) /\ rq_pc = "returned")

\* C19: _make_github_request ends after at most max_retries attempts: a
\* transient failure before the final attempt is retried after the backoff
\* delay, a failure on the final attempt raises, and nothing follows a success.
C19_RequestEndsWithinMaxRetries ==
    /\ [] (AtMostMaxRetriesAttempts /\ RetriesAfterBackoff /\ FinalFailureRaises
              /\ NoAttemptAfterSuccess)
    /\ <> Request_Ended

\* two transient failures, then a success on the final attempt
C19_SucceedsOnTheFinalAttempt ==
    /\ rq_pc = "returned"
    /\ Len(rq_log) = max_retries
    /\ rq_log[1].response = "rate_limited"
    /\ rq_log[2].response = "transport_error"
    /\ rq_log[2].delay > rq_log[1].delay

(***************************************************************************)
(* Claims about the reads of the primary pass                              *)
(***************************************************************************)
\* after a 404 answer _make_github_request makes no further attempt: the 404
\* is the last attempt of the call and the call raised
NotFoundIsNotRetried ==
    \A k \in DOMAIN rq_log :
        rq_log[k].response = "not_found" =>
            /\ k = Len(rq_log)
            /\ rq_pc = "raised"
            /\ rq_result.detail = "Repository not found"

\* the outcomes that make get_file_content return None without content
ReadsWithoutContent == { "not_found", "undecodable" }

\* a returned record of the given file
returned_from(file) ==
    \E n \in DOMAIN dc_result.apis : dc_result.apis[n].file_path = file.path

\* every record extraction gives for the file is returned under its key
all_returned_of(file) ==
    \A m \in DOMAIN _extract_apis_from_file(file) :
        \E n \in DOMAIN dc_result.apis :
            same_key(dc_result.apis[n], _extract_apis_from_file(file)[m])

UnreadFilesContributeNothing ==
    Discovery_Returned =>
        \A r \in DOMAIN reads :
            reads[r].outcome # "content" => ~returned_from(api_files[reads[r].file])

\* whatever the request gave, bytes that do not decode give no record
UndecodableFilesContributeNothing ==
    Discovery_Returned =>
        \A k \in DOMAIN api_files : ~api_files[k].decodable => ~returned_from(api_files[k])

ReadFilesAreReturned ==
    Discovery_Returned =>
        \A r \in DOMAIN reads :
            reads[r].outcome = "content" => all_returned_of(api_files[reads[r].file])

\* C21: a 404 answer is never retried; a file whose read gave 404 or whose
\* bytes do not decode contributes no endpoint, the scan goes on and returns
\* the endpoints of every file that was read
C21_UnreadableFileContributesNothing ==
    /\ NotFoundIsNotRetried
    /\ UnreadFilesContributeNothing
    /\ UndecodableFilesContributeNothing
    /\ ReadFilesAreReturned

\* a run that returned the endpoints of a.py although the read of b.py was
\* answered 404 and the bytes of c.bin did not decode
C21_ReturnedDespiteNotFoundAndUndecodable ==
    /\ Discovery_Returned
    /\ \E r \in DOMAIN reads : reads[r].file = 2 /\ reads[r].outcome = "not_found"
    /\ \E r \in DOMAIN reads : reads[r].file = 3 /\ reads[r].outcome = "undecodable"
    /\ \E r \in DOMAIN reads : reads[r].file = 1 /\ reads[r].outcome = "content"
    /\ all_returned_of(api_files[1])
    /\ dc_result.apis # <<>>

(***************************************************************************)
(* Claims about the aggressive scan and the debug samples                  *)
(***************************************************************************)
\* every returned record is one the primary pass collected
returned_from_primary ==
    \A n \in DOMAIN dc_result.apis :
        \E m \in DOMAIN discovered_apis : dc_result.apis[n] = discovered_apis[m]

\* C22: the aggressive scan is not called while the pool runs; at the return
\* it was called exactly when the primary pass collected no endpoint, and
\* when the primary pass collected one every returned record is one of the
\* primary pass
C22_AggressiveScanIffPrimaryFoundNothing ==
    /\ dc_pc = "pool" => ~aggressive_ran
    /\ Discovery_Returned => (aggressive_ran <=> discovered_apis = <<>>)
    /\ Discovery_Returned /\ discovered_apis # <<>> => returned_from_primary

\* a run whose primary pass found nothing and whose aggressive scan did
C22_AggressiveScanFoundEndpoints ==
    /\ Discovery_Returned
    /\ discovered_apis = <<>>
    /\ aggressive_ran
    /\ dc_result.apis # <<>>

\* a record made by _create_debug_sample_apis: its file is under Controllers/,
\* where the repositories of DebugSnapshots have no file
is_synthesized(api) == startswith(api.file_path, s_controllers)

\* C23: a discovery call of a request that did not enable the debug samples
\* returns no synthesized endpoint, whatever the earlier requests did
C23_SamplesOnlyWhenTheCallAsks ==
    Discovery_Returned /\ ~request_data.enable_debug_samples =>
        \A n \in DOMAIN dc_result.apis : ~is_synthesized(dc_result.apis[n])

(***************************************************************************)
(* Claims about the extraction from large files                            *)
(***************************************************************************)
\* the (endpoint, line_number) pairs of a list of records
pairs_of(apis) == { <<apis[k].endpoint, apis[k].line_number>> : k \in DOMAIN apis }

\* C24: for every content, chunked extraction returns the same set of
\* (endpoint, line_number) pairs as one _extract_apis_from_file call on the
\* whole content
C24_ChunkedReturnsThePairsOfTheWhole ==
    /\ fn_call.name = "large_file"
    /\ fn_call.returned.chunked # NotReturned
    /\ fn_call.returned.whole # NotReturned
    => pairs_of(fn_call.returned.chunked[1]) = pairs_of(fn_call.returned.whole[1])

(***************************************************************************)
(* Claims about the risk classifier                                        *)
(***************************************************************************)
Risk_Returned == fn_call.name = "_determine_risk_level"

\* complexity plus the weight of each issue of the call
score_of_call == risk_score_of(fn_call.args.complexity, fn_call.args.issues, 1)

\* C25: the level is HIGH when complexity + the weights of the issues is at
\* least 7, MEDIUM when it is at least 4 and below 7, LOW when it is below 4,
\* and nothing else
C25_LevelFollowsTheScore ==
    Risk_Returned =>
        /\ fn_call.returned \in { "HIGH", "MEDIUM", "LOW" }
        /\ fn_call.returned = "HIGH" <=> score_of_call >= 7 * Scale
        /\ fn_call.returned = "MEDIUM" <=>
               (4 * Scale <= score_of_call /\ score_of_call < 7 * Scale)
        /\ fn_call.returned = "LOW" <=> score_of_call < 4 * Scale

\* complexity 3 and one issue of weight 1: the score is exactly 4
C25_MediumAtExactlyFour ==
    /\ Risk_Returned
    /\ fn_call.args = [ complexity |-> 3 * Scale, issues |-> <<"no_validation">> ]
    /\ fn_call.returned = "MEDIUM"

\* C26 as amended: in the table a call uses, the N+1-query tag has the strictly highest weight, missing
\* caching and missing error handling share the next highest, and missing
\* validation is strictly below missing caching
C26_CachingAndErrorHandlingShareSecond ==
    Risk_Returned =>
        /\ \A tag \in IssueTags \ { "potential_n_plus_one_query" } :
               issue_weight(tag) < issue_weight("potential_n_plus_one_query")
        /\ \A tag \in IssueTags \ { "potential_n_plus_one_query" } :
               issue_weight(tag) <= issue_weight("no_caching")
        /\ issue_weight("no_error_handling") = issue_weight("no_caching")
        /\ issue_weight("no_validation") < issue_weight("no_caching")

\* C26 as stated: in the table a call uses, missing validation and missing error handling both weigh
\* strictly less than missing caching
C26_ErrorHandlingBelowCaching ==
    Risk_Returned =>
        /\ \A tag \in IssueTags \ { "potential_n_plus_one_query" } :
               issue_weight(tag) < issue_weight("potential_n_plus_one_query")
        /\ \A tag \in IssueTags \ { "potential_n_plus_one_query" } :
               issue_weight(tag) <= issue_weight("no_caching")
        /\ issue_weight("no_validation") < issue_weight("no_caching")
        /\ issue_weight("no_error_handling") < issue_weight("no_caching")

\* complexity 2 and missing error handling alone reach MEDIUM, as complexity 2
\* and missing caching alone do
C26_ErrorHandlingAloneReachesMedium ==
    /\ Risk_Returned
    /\ fn_call.args = [ complexity |-> 2 * Scale, issues |-> <<"no_error_handling">> ]
    /\ fn_call.returned = "MEDIUM"
    /\ _determine_risk_level(2 * Scale, <<"no_caching">>) = "MEDIUM"

(***************************************************************************)
(* Claims about the files handed to extraction                             *)
(***************************************************************************)
Listing_Returned == fn_call.name = "_get_all_files"

\* the directories of the deny-list: version-control metadata, dependency
\* caches, build and output directories, IDE settings
DenyListedDirectories ==
    { <<".","g","i","t">>,
      <<".","s","v","n">>,
      <<".","h","g">>,
      <<".","i","d","e","a">>,
      <<".","v","s","c","o","d","e">>,
      <<".","v","s">>,
      <<"n","o","d","e","_","m","o","d","u","l","e","s">>,
      <<"b","o","w","e","r","_","c","o","m","p","o","n","e","n","t","s">>,
      <<"v","e","n","d","o","r">>,
      <<"p","a","c","k","a","g","e","s">>,
      <<"_","_","p","y","c","a","c","h","e","_","_">>,
      <<".","p","y","t","e","s","t","_","c","a","c","h","e">>,
      <<".","m","y","p","y","_","c","a","c","h","e">>,
      <<"v","e","n","v">>,
      <<"e","n","v">>,
      <<".","v","e","n","v">>,
      <<"b","i","n">>,
      <<"o","b","j">>,
      <<"t","a","r","g","e","t">>,
      <<"b","u","i","l","d">>,
      <<"d","i","s","t">>,
      <<"o","u","t">>,
      <<"r","e","l","e","a","s","e">> }

\* manifest and lock files
ManifestFiles ==
    { <<"p","a","c","k","a","g","e","-","l","o","c","k",".","j","s","o","n">>,
      <<"y","a","r","n",".","l","o","c","k">>,
      <<"p","n","p","m","-","l","o","c","k",".","y","a","m","l">>,
      <<"c","o","m","p","o","s","e","r",".","l","o","c","k">>,
      <<"p","o","e","t","r","y",".","l","o","c","k">>,
      <<"P","i","p","f","i","l","e",".","l","o","c","k">>,
      <<"G","e","m","f","i","l","e",".","l","o","c","k">>,
      <<"C","a","r","g","o",".","l","o","c","k">>,
      <<"p","o","m",".","x","m","l">>,
      <<"b","u","i","l","d",".","g","r","a","d","l","e">>,
      <<"r","e","q","u","i","r","e","m","e","n","t","s",".","t","x","t">>,
      <<"P","i","p","f","i","l","e">>,
      <<"s","e","t","u","p",".","p","y">>,
      <<"p","y","p","r","o","j","e","c","t",".","t","o","m","l">>,
      <<"p","a","c","k","a","g","e",".","j","s","o","n">>,
      <<"c","o","m","p","o","s","e","r",".","j","s","o","n">>,
      <<"G","e","m","f","i","l","e">>,
      <<"C","a","r","g","o",".","t","o","m","l">> }

\* the path lies under a directory of the deny-list
under_denied_directory(path) ==
    \E d \in DenyListedDirectories :
        startswith(path, d \o <<"/">>) \/ contains(<<"/">> \o d \o <<"/">>, path)

has_allowed_extension(path) == \E ext \in api_extensions : endswith(lower(path), ext)

is_manifest(path) ==
    \E m \in ManifestFiles : path = m \/ endswith(path, <<"/">> \o m)

\* C27: every file handed to extraction in the primary pass has an
\* extension of the allow-list, is no manifest or lock file and lies under
\* no deny-listed directory, and the listing descends into no deny-listed
\* directory
C27_OnlyAllowedFilesAreExtracted ==
    Listing_Returned =>
        /\ \A k \in DOMAIN fn_call.returned.api_files :
               /\ has_allowed_extension(fn_call.returned.api_files[k].path)
               /\ ~is_manifest(fn_call.returned.api_files[k].path)
               /\ ~under_denied_directory(fn_call.returned.api_files[k].path)
        /\ \A d \in fn_call.returned.listed : ~under_denied_directory(d \o <<"/">>)

(***************************************************************************)
(* Claims about match_apis_with_color_coding (specification SpecColor)     *)
(***************************************************************************)
Color_Called == fn_call.name = "match_apis_with_color_coding"

Color_Returned == Color_Called /\ fn_call.returned.kind = "list"

\* the threshold is in [0, 1]
ThresholdInUnitInterval == 0 <= min_confidence_threshold /\ min_confidence_threshold <= Scale

\* every accepted match of a returned match_apis refers to an element of the list
match_apis_refers_to_input ==
    \A m \in DOMAIN result.matched_apis :
        /\ result.matched_apis[m].source_index \in DOMAIN source_apis
        /\ result.matched_apis[m].api_endpoint =
               source_apis[result.matched_apis[m].source_index].endpoint

\* every entry of a returned match_apis_with_color_coding refers to an
\* element of the list
color_coding_refers_to_input ==
    \A m \in DOMAIN fn_call.returned.matched :
        /\ fn_call.returned.matched[m].source_index \in DOMAIN fn_call.args.source_apis
        /\ fn_call.returned.matched[m].api_endpoint =
               fn_call.args.source_apis[fn_call.returned.matched[m].source_index].endpoint

\* C28: with a threshold in [0, 1], 0 included, and any input, a call of
\* match_apis or of match_apis_with_color_coding does not raise and each
\* accepted match refers to a discovered endpoint of the input list
C28_NoRaiseAndMatchesReferToInput ==
    ThresholdInUnitInterval =>
        /\ Color_Called => fn_call.returned.kind = "list" /\ color_coding_refers_to_input
        /\ (copy = "app" /\ pc \in {"returned", "raised"}) =>
               pc = "returned" /\ match_apis_refers_to_input

\* C30: in every entry returned by match_apis_with_color_coding the colour is
\* red exactly when performance_issues is not empty and green exactly when
\* it is empty
C30_RedExactlyWhenIssuesListed ==
    Color_Returned =>
        \A m \in DOMAIN fn_call.returned.matched :
            /\ fn_call.returned.matched[m].color_indicator = "red" <=>
                   fn_call.returned.matched[m].performance_issues # <<>>
            /\ fn_call.returned.matched[m].color_indicator = "green" <=>
                   fn_call.returned.matched[m].performance_issues = <<>>

(***************************************************************************)
(* Claims about compare_apis_with_issues (specification SpecCompare)       *)
(***************************************************************************)
Compare_Returned == fn_call.name = "compare_apis_with_issues"

\* the discovered API of index k is the source side of a returned match
is_source_of_a_match(k) ==
    \E m \in DOMAIN fn_call.returned.matches : fn_call.returned.matches[m].source_api = k

in_unmatched_source(k) ==
    \E n \in DOMAIN fn_call.returned.unmatched_source_apis :
        fn_call.returned.unmatched_source_apis[n] = k

\* C29: a discovered API that is the source side of a returned match is not
\* in unmatched_source_apis, and one that is the source side of no match is
C29_UnmatchedSourceIsTheUnselected ==
    Compare_Returned =>
        \A k \in DOMAIN fn_call.args.discovered_apis :
            is_source_of_a_match(k) <=> ~in_unmatched_source(k)

====
